---------------------------- MODULE Spec2Model ----------------------------
(***************************************************************************)
(* A model of the geminot image pipeline: the AI inpainting worker, the    *)
(* badge detection worker, the inpainting service with the page that calls *)
(* it, and the model cache.                                                *)
(*                                                                         *)
(* Conventions.                                                            *)
(*   - A confidence or threshold is an integer number of hundredths        *)
(*     (0.5 is 50), a scale an integer percentage (1.25 is 125).           *)
(*   - A call of a worker method is a slot of `calls`.  It is posted to    *)
(*     the worker's inbox, handled in arrival order, and its pc names the  *)
(*     await it is suspended at.  A handler runs from one await to the     *)
(*     next in one step, as the worker's event loop does.                  *)
(*   - An external collaborator (fetch, the ONNX session, OpenCV,          *)
(*     IndexedDB) answers with any outcome its interface allows.           *)
(*   - A null reference is the No... record of its type.                   *)
(***************************************************************************)
EXTENDS Integers, Sequences, FiniteSets, TLC

\* ------------------------------------------------------------------ bounds
\* Call slots of the workers (each slot carries one call at a time).
MaxCalls == 3
\* AI worker instances the service may create.
MaxWorkers == 2
\* Files dropped on the page.
MaxDrops == 2
\* Calls of ModelService.isModelCached().
MaxChecks == 2
\* Calls of ModelService.downloadModel().
MaxDownloads == 2

Calls == 1..MaxCalls
Workers == 1..MaxWorkers
\* The detection worker's place in `inbox`.
DetWorker == MaxWorkers + 1

VARIABLES
  useWebgpu,   \* INPAINTING_CONFIG.USE_WEBGPU of the build
  aiLife,      \* per AI worker: "unborn", "running" or "terminated"
  ai,          \* per AI worker: the AIInpaintingWorker instance's fields
  det,         \* the BadgeDetectionWorker instance's fields
  cvLoaded,    \* whether the global cv of the detection worker is defined
  liveMats,    \* the cv.Mat objects allocated and not deleted
  inbox,       \* per worker: the calls posted and not yet handled, in order
  calls,       \* the calls made to the workers
  client,      \* the worker the client of this run holds (the two workers
               \* share nothing, so a run exercises one of them)
  asset,       \* the size of the template image served at /templates/badge.png
  detect,      \* the locals of the detectBadge() call being executed
  appState,    \* the page's store: loading, ready, processing or complete
  images,      \* the store's originalImage and cleanedImage: the drop whose
               \* blob, or whose result, each holds (0 for null)
  drops,       \* the onDrop() calls of the page, each with its inpaintImage()
  aiWorker,    \* InpaintingService.aiWorker / aiApi (0 for null)
  db,          \* ModelService.db is set
  stored,      \* the urls that have a record in the models store
  checks,      \* the isModelCached() calls
  records,     \* the bytes of the record each url has in the models store
  downloads,   \* the downloadModel() calls
  uploads,     \* the files handed to processImageFile() and to the inpainting entry points
  probe        \* a library function, its arguments and what it returned

workerVars == <<useWebgpu, aiLife, ai, det, cvLoaded, liveMats, inbox, calls>>
store == <<appState, images>>
pageVars == <<store, drops, aiWorker>>
cacheVars == <<db, stored, checks>>
toolVars == <<uploads, probe>>
libVars == <<records, downloads, toolVars>>

\* The calls the page has made to onDrop() and the calls made to
\* isModelCached().
Drops == 1..MaxDrops
Checks == 1..MaxChecks
Downloads == 1..MaxDownloads
Urls == {"model", "other"}

\* simple-app-store.ts, lines 29-32: the store holds no image.
NoImages == [originalImage |-> 0, cleanedImage |-> 0]

\* An onDrop() call: where it is, and the worker call it awaits.
NoDrop == [pc |-> "idle", c |-> 0, outcome |-> "none"]

\* An isModelCached() call: its url, where it is, the get request and the
\* timer of its promise, and how it settled.
NoCheck == [url |-> "", pc |-> "idle", get |-> "none", timer |-> "none",
            outcome |-> "none", value |-> FALSE]

\* simple-app-store.ts, lines 25-32; inpainting-service.ts, lines 32-35;
\* model-service.ts, line 19.
PageFresh ==
  /\ appState = "loading"
  /\ images = NoImages
  /\ drops = [d \in Drops |-> NoDrop]
  /\ aiWorker = 0
CacheFresh ==
  /\ db = FALSE
  /\ stored = {}
  /\ checks = [k \in Checks |-> NoCheck]

\* A downloadModel() call: its url, where it is, whether getCachedModel()
\* gave it bytes, the fetches it made, the percentages it reported, the bytes
\* the response still has to deliver and those received, the content-length,
\* and how it settled.
NoDownload ==
  [url |-> "", pc |-> "idle", hit |-> FALSE, fetches |-> 0, progress |-> <<>>,
   body |-> <<>>, loaded |-> <<>>, total |-> 0, outcome |-> "none", result |-> <<>>]

\* A file handed to processImageFile() or to an inpainting entry point: the
\* File's type and size, the function called, where the call is, what it has
\* done so far, and how it settled.
NoFile == [type |-> "", size |-> 0]
NoUpload ==
  [file |-> NoFile, entry |-> "none", pc |-> "idle", id |-> FALSE,
   dimensions |-> "none", thumbnail |-> "none", worker |-> FALSE,
   mask |-> FALSE, inference |-> FALSE, outcome |-> "none", error |-> "none"]

NoProbe == [op |-> "none"]

ToolFresh ==
  /\ uploads = [d \in Drops |-> NoUpload]
  /\ probe = NoProbe

\* Everything but the probed library function.
restVars == <<uploads, records, downloads, cacheVars, pageVars, client, asset, detect, workerVars>>

LibFresh ==
  /\ records = [u \in Urls |-> <<>>]
  /\ downloads = [k \in Downloads |-> NoDownload]
  /\ ToolFresh

NoSession == [provider |-> "none", by |-> 0]
NoBuffer == [by |-> 0]
NoTemplate == [by |-> 0, gray |-> FALSE]

\* ai-inpainting.worker.ts:22-28
AiFresh ==
  [initialized |-> FALSE, session |-> NoSession, modelBuffer |-> NoBuffer,
   executionProvider |-> "wasm"]

\* detection.worker.ts:27-29
DetFresh == [initialized |-> FALSE, template |-> NoTemplate, cvReady |-> FALSE]

\* detection.worker.ts:12-18, and null
NoMatch == [found |-> FALSE, x |-> 0, y |-> 0, width |-> 0, height |-> 0, confidence |-> 0]

\* An ImageData: data holds R, G, B, A of the pixels row by row (data[i] of
\* the source is data[i + 1] here).
NoImage == [width |-> 0, height |-> 0, data |-> <<>>]

NoCall ==
  [kind |-> "none", w |-> 0, pc |-> "idle", outcome |-> "none", error |-> "",
   ret |-> FALSE, early |-> FALSE, did |-> {}, attempts |-> <<>>,
   bufArg |-> NoBuffer, size |-> <<0, 0>>, match |-> NoMatch,
   image |-> NoImage, mask |-> NoImage, padding |-> 0,
   patch |-> NoImage, warned |-> FALSE, result |-> NoImage]

\* detectBadge() has no await: once started it runs to its end before the
\* detection worker handles anything else.
NotDetecting ==
  [pc |-> "idle", c |-> 0, roiX |-> 0, roiY |-> 0, roiWidth |-> 0, roiHeight |-> 0,
   matches |-> <<>>, bestMatch |-> NoMatch, bestConfidence |-> 0,
   result |-> NoMatch, thrown |-> FALSE]

Resolve(call) == [call EXCEPT !.pc = "done", !.outcome = "resolved"]
Reject(call, e) == [call EXCEPT !.pc = "done", !.outcome = "rejected", !.error = e]

\* The comlink boundary: a call is posted to a worker and handled when it is
\* the oldest unhandled message of that worker.
Post(c, kind, w) ==
  /\ calls[c].kind = "none"
  /\ calls' = [calls EXCEPT ![c] =
       [NoCall EXCEPT !.kind = kind, !.w = w, !.pc = "posted", !.outcome = "pending"]]
  /\ inbox' = [inbox EXCEPT ![w] = Append(@, c)]

Handling(c, kind) ==
  /\ calls[c].kind = kind /\ calls[c].pc = "posted"
  /\ inbox[calls[c].w] # <<>> /\ Head(inbox[calls[c].w]) = c
  /\ calls[c].w \in Workers => aiLife[calls[c].w] = "running"
  /\ calls[c].w = DetWorker => detect.pc = "idle"

Taken(c) == [inbox EXCEPT ![calls[c].w] = Tail(@)]

At(c, kind, pc) ==
  /\ calls[c].kind = kind /\ calls[c].pc = pc
  /\ calls[c].w \in Workers => aiLife[calls[c].w] = "running"
  /\ calls[c].w = DetWorker => detect.pc = "idle"

\* ------------------------------------------------------------- AI worker
\* initialize(), lines 33-37: the guard, then the first await (fetch).
AiInitializeCall(c) ==
  /\ Handling(c, "ai_initialize")
  /\ inbox' = Taken(c)
  /\ IF ai[calls[c].w].initialized
       THEN calls' = [calls EXCEPT ![c] = [Resolve(@) EXCEPT !.early = TRUE]]
       ELSE calls' = [calls EXCEPT ![c].pc = "fetch"]
  /\ UNCHANGED <<pageVars, cacheVars, libVars, client, asset, detect, useWebgpu, aiLife, ai, det, cvLoaded, liveMats>>

\* initialize(), lines 102-106: the catch block.
AiInitializeCatch(s) == [s EXCEPT !.initialized = FALSE]

\* initialize(), lines 47-58: fetch answers; a network error, a non-ok status
\* and a missing body all throw into the catch block.
AiFetchDone(c) ==
  /\ At(c, "ai_initialize", "fetch")
  /\ \E r \in {"ok", "network error", "HTTP error", "Response body is null"} :
       IF r = "ok"
         THEN /\ calls' = [calls EXCEPT ![c].pc = "read"]
              /\ UNCHANGED ai
         ELSE /\ calls' = [calls EXCEPT ![c] = Reject(@, r)]
              /\ ai' = [ai EXCEPT ![calls[c].w] = AiInitializeCatch(@)]
  /\ UNCHANGED <<pageVars, cacheVars, libVars, client, asset, detect, useWebgpu, aiLife, det, cvLoaded, liveMats, inbox>>

\* initialize(), lines 65-79: one chunk of the stream is read and kept; only
\* the progress log depends on how many have been read, so the call stays at
\* the same await.
AiReadChunk(c) ==
  /\ At(c, "ai_initialize", "read")
  /\ UNCHANGED <<pageVars, cacheVars, libVars, client, asset, detect, useWebgpu, aiLife, ai, det, cvLoaded, liveMats, inbox, calls>>

\* initialize(), line 66: reader.read() rejects.
AiReadError(c) ==
  /\ At(c, "ai_initialize", "read")
  /\ calls' = [calls EXCEPT ![c] = Reject(@, "read error")]
  /\ ai' = [ai EXCEPT ![calls[c].w] = AiInitializeCatch(@)]
  /\ UNCHANGED <<pageVars, cacheVars, libVars, client, asset, detect, useWebgpu, aiLife, det, cvLoaded, liveMats, inbox>>

\* initializeSession(), lines 117-144: the providers in the order they are
\* attempted.
ProviderOrder(webgpu) == IF webgpu THEN <<"webgpu", "wasm">> ELSE <<"wasm">>

\* initializeSession(), lines 127-143: what follows a provider's failure: the
\* next provider to try, or "none" when the error is rethrown.
AfterProviderFailureNoFallback(p) == "none"
AfterProviderFailure(p) == IF p = "webgpu" THEN "wasm" ELSE "none"

\* initialize(), lines 68-98: the stream ends, the buffer is stored, and
\* initializeSession() starts its first InferenceSession.create.
AiReadDone(c) ==
  /\ At(c, "ai_initialize", "read")
  /\ LET buf == [by |-> c] IN
       /\ ai' = [ai EXCEPT ![calls[c].w].modelBuffer = buf]
       /\ calls' = [calls EXCEPT ![c].pc = ProviderOrder(useWebgpu)[1],
                                 ![c].did = @ \cup {"download"},
                                 ![c].bufArg = buf]
  /\ UNCHANGED <<pageVars, cacheVars, libVars, client, asset, detect, useWebgpu, aiLife, det, cvLoaded, liveMats, inbox>>

\* initializeSession(), lines 121-126 and 135-139: a session was created.
SessionCreated(s, c, p) ==
  [s EXCEPT !.session = [provider |-> p, by |-> c], !.executionProvider = p]

\* initializeSession(): InferenceSession.create answers for provider p.  The
\* model buffer handed to create is this.modelBuffer as read when the attempt
\* started; create cannot succeed without a buffer.
AiSessionDone(c, p) ==
  /\ At(c, "ai_initialize", p)
  /\ \E ok \in BOOLEAN :
       /\ ok => calls[c].bufArg # NoBuffer
       /\ LET tried == Append(calls[c].attempts, <<p, ok>>)
              next == AfterProviderFailure(p) IN
            IF ok
              THEN \* lines 98-100: initializeSession returned
                   /\ ai' = [ai EXCEPT ![calls[c].w] =
                        [SessionCreated(@, c, p) EXCEPT !.initialized = TRUE]]
                   /\ calls' = [calls EXCEPT ![c] =
                        [Resolve(@) EXCEPT !.attempts = tried,
                                           !.did = @ \cup {"session"}]]
              ELSE IF next # "none"
                THEN /\ calls' = [calls EXCEPT ![c].pc = next,
                                               ![c].attempts = tried,
                                               ![c].bufArg = ai[calls[c].w].modelBuffer]
                     /\ UNCHANGED ai
                ELSE /\ calls' = [calls EXCEPT ![c] =
                          [Reject(@, "session creation failed")
                             EXCEPT !.attempts = tried]]
                     /\ ai' = [ai EXCEPT ![calls[c].w] = AiInitializeCatch(@)]
  /\ UNCHANGED <<pageVars, cacheVars, libVars, client, asset, detect, useWebgpu, aiLife, det, cvLoaded, liveMats, inbox>>

AiWebgpuDone(c) == AiSessionDone(c, "webgpu")
AiWasmDone(c) == AiSessionDone(c, "wasm")

\* cleanup(), lines 648-655.
AiCleanupKeepsBuffer(s) == [s EXCEPT !.session = NoSession, !.initialized = FALSE]
AiCleanupState(s) ==
  [s EXCEPT !.session = NoSession, !.modelBuffer = NoBuffer, !.initialized = FALSE]

AiCleanupCall(c) ==
  /\ Handling(c, "ai_cleanup")
  /\ inbox' = Taken(c)
  /\ ai' = [ai EXCEPT ![calls[c].w] = AiCleanupState(@)]
  /\ calls' = [calls EXCEPT ![c] = Resolve(@)]
  /\ UNCHANGED <<pageVars, cacheVars, libVars, client, asset, detect, useWebgpu, aiLife, det, cvLoaded, liveMats>>

\* isInitialized(), lines 641-643.
AiIsInitializedCall(c) ==
  /\ Handling(c, "ai_isInitialized")
  /\ inbox' = Taken(c)
  /\ calls' = [calls EXCEPT ![c] = [Resolve(@) EXCEPT !.ret = ai[calls[c].w].initialized]]
  /\ UNCHANGED <<pageVars, cacheVars, libVars, client, asset, detect, useWebgpu, aiLife, ai, det, cvLoaded, liveMats>>

\* ------------------------------------------------------ detection worker
TemplateMat(c) == <<"template", c>>

\* initialize(), lines 51-55: the catch block.
DetInitializeCatch(s) == [s EXCEPT !.initialized = FALSE]

\* initialize(), lines 34-47, with loadOpenCV(), lines 61-76: the guard, then
\* either cv is already there and loadTemplate() starts its fetch, or the
\* script is imported (which may throw) and the readiness poll starts.
DetInitializeCall(c) ==
  /\ Handling(c, "det_initialize")
  /\ inbox' = Taken(c)
  /\ IF det.initialized
       THEN /\ calls' = [calls EXCEPT ![c] = [Resolve(@) EXCEPT !.early = TRUE]]
            /\ UNCHANGED det
       ELSE IF cvLoaded
         THEN /\ det' = [det EXCEPT !.cvReady = TRUE]
              /\ calls' = [calls EXCEPT ![c].pc = "tfetch"]
         ELSE \E imported \in BOOLEAN :
                IF imported
                  THEN /\ calls' = [calls EXCEPT ![c].pc = "cvwait"]
                       /\ UNCHANGED det
                  ELSE /\ calls' = [calls EXCEPT ![c] = Reject(@, "importScripts failed")]
                       /\ det' = DetInitializeCatch(det)
  /\ UNCHANGED <<pageVars, cacheVars, libVars, client, asset, detect, useWebgpu, aiLife, ai, cvLoaded, liveMats>>

\* loadOpenCV(), lines 82-96: the poll sees cv ready, or gives up.
DetCvWaitDone(c) ==
  /\ At(c, "det_initialize", "cvwait")
  /\ \E ready \in BOOLEAN :
       IF ready
         THEN /\ cvLoaded' = TRUE
              /\ det' = [det EXCEPT !.cvReady = TRUE]
              /\ calls' = [calls EXCEPT ![c].pc = "tfetch"]
         ELSE /\ ~cvLoaded
              /\ UNCHANGED cvLoaded
              /\ det' = DetInitializeCatch(det)
              /\ calls' = [calls EXCEPT ![c] = Reject(@, "OpenCV loading timeout")]
  /\ UNCHANGED <<pageVars, cacheVars, libVars, client, asset, detect, useWebgpu, aiLife, ai, liveMats, inbox>>

\* loadTemplate(), lines 115-126: fetch, response.blob() and createImageBitmap
\* are awaited one after the other; each may fail.
DetTemplateAwaitDone(c, pc, next) ==
  /\ At(c, "det_initialize", pc)
  /\ \E ok \in BOOLEAN :
       IF ok
         THEN /\ calls' = [calls EXCEPT ![c].pc = next]
              /\ UNCHANGED det
         ELSE /\ calls' = [calls EXCEPT ![c] = Reject(@, "Failed to load template")]
              /\ det' = DetInitializeCatch(det)
  /\ UNCHANGED <<pageVars, cacheVars, libVars, client, asset, detect, useWebgpu, aiLife, ai, cvLoaded, liveMats, inbox>>

DetFetchDone(c) == DetTemplateAwaitDone(c, "tfetch", "blob")
DetBlobDone(c) == DetTemplateAwaitDone(c, "blob", "bitmap")

\* loadTemplate(), lines 126-159, then initialize(), line 49: the bitmap is
\* decoded (or not), the template Mat is allocated and stored, and cvtColor
\* converts it in place (or throws).
DetBitmapDone(c) ==
  /\ At(c, "det_initialize", "bitmap")
  /\ \E r \in {"decode failed", "no canvas context", "cvtColor failed", "ok"} :
       IF r \in {"decode failed", "no canvas context"}
         THEN /\ calls' = [calls EXCEPT ![c] = Reject(@, r)]
              /\ det' = DetInitializeCatch(det)
              /\ UNCHANGED liveMats
         ELSE /\ liveMats' = liveMats \cup {TemplateMat(c)}
              /\ IF r = "ok"
                   THEN /\ det' = [det EXCEPT !.template = [by |-> c, gray |-> TRUE],
                                              !.initialized = TRUE]
                        /\ calls' = [calls EXCEPT ![c] =
                             [Resolve(@) EXCEPT !.did = {"template"}]]
                   ELSE /\ det' = DetInitializeCatch(
                                    [det EXCEPT !.template = [by |-> c, gray |-> FALSE]])
                        /\ calls' = [calls EXCEPT ![c] = Reject(@, r)]
  /\ UNCHANGED <<pageVars, cacheVars, libVars, client, asset, detect, useWebgpu, aiLife, ai, cvLoaded, inbox>>

\* cleanup(), lines 332-339.  Mat.delete() throws on a Mat already deleted.
DetCleanupState(s) == [s EXCEPT !.template = NoTemplate, !.initialized = FALSE]

DetCleanupCall(c) ==
  /\ Handling(c, "det_cleanup")
  /\ inbox' = Taken(c)
  /\ IF det.template # NoTemplate /\ TemplateMat(det.template.by) \notin liveMats
       THEN /\ calls' = [calls EXCEPT ![c] = Reject(@, "Mat already deleted")]
            /\ UNCHANGED <<det, liveMats>>
       ELSE /\ calls' = [calls EXCEPT ![c] = Resolve(@)]
            /\ det' = DetCleanupState(det)
            /\ liveMats' = IF det.template # NoTemplate
                             THEN liveMats \ {TemplateMat(det.template.by)}
                             ELSE liveMats
  /\ UNCHANGED <<pageVars, cacheVars, libVars, client, asset, detect, useWebgpu, aiLife, ai, cvLoaded>>

\* isInitialized(), lines 325-327.
DetIsInitializedCall(c) ==
  /\ Handling(c, "det_isInitialized")
  /\ inbox' = Taken(c)
  /\ calls' = [calls EXCEPT ![c] = [Resolve(@) EXCEPT !.ret = det.initialized]]
  /\ UNCHANGED <<pageVars, cacheVars, libVars, client, asset, detect, useWebgpu, aiLife, ai, det, cvLoaded, liveMats>>

\* ---------------------------------------------- the workers' life cycles
\* A client of the two workers' exposed interfaces calls them in any order,
\* without waiting for earlier calls to return.
LifecycleKinds(worker) ==
  IF worker = DetWorker
    THEN {<<"det_initialize", DetWorker>>, <<"det_cleanup", DetWorker>>,
          <<"det_isInitialized", DetWorker>>}
    ELSE {<<"ai_initialize", worker>>, <<"ai_cleanup", worker>>,
          <<"ai_isInitialized", worker>>}

ClientPost(c) ==
  /\ IF c = 1 THEN TRUE ELSE calls[c - 1].kind # "none"
  /\ \E k \in LifecycleKinds(client) : Post(c, k[1], k[2])
  /\ UNCHANGED <<pageVars, cacheVars, libVars, client, asset, detect, useWebgpu, aiLife, ai, det, cvLoaded, liveMats>>

\* The badge template shipped with the application.
DefaultAsset == [cols |-> 16, rows |-> 12]

WorkerInit ==
  /\ client \in {1, DetWorker}
  /\ asset = DefaultAsset
  /\ detect = NotDetecting
  /\ PageFresh /\ CacheFresh /\ LibFresh
  /\ useWebgpu \in BOOLEAN
  /\ aiLife = [w \in Workers |-> IF w = 1 THEN "running" ELSE "unborn"]
  /\ ai = [w \in Workers |-> AiFresh]
  /\ det = DetFresh
  /\ cvLoaded = FALSE
  /\ liveMats = {}
  /\ inbox = [w \in Workers \cup {DetWorker} |-> <<>>]
  /\ calls = [c \in Calls |-> NoCall]

AiStep(c) ==
  \/ AiInitializeCall(c)
  \/ AiFetchDone(c)
  \/ AiReadChunk(c)
  \/ AiReadError(c)
  \/ AiReadDone(c)
  \/ AiWebgpuDone(c)
  \/ AiWasmDone(c)
  \/ AiCleanupCall(c)
  \/ AiIsInitializedCall(c)

DetStep(c) ==
  \/ DetInitializeCall(c)
  \/ DetCvWaitDone(c)
  \/ DetFetchDone(c)
  \/ DetBlobDone(c)
  \/ DetBitmapDone(c)
  \/ DetCleanupCall(c)
  \/ DetIsInitializedCall(c)

vars == <<workerVars, client, asset, detect, pageVars, cacheVars, libVars>>

Init == WorkerInit

Next ==
  \E c \in Calls :
    \/ ClientPost(c)
    \/ AiStep(c)
    \/ DetStep(c)

Spec == Init /\ [][Next]_vars

\* --------------------------------------------------- life-cycle claims
Handled(c, kind) ==
  calls[c].kind = kind /\ calls[c].pc = "posted" /\ calls'[c].pc # "posted"

Settles(c, kind, outcome) ==
  calls[c].kind = kind /\ calls[c].outcome = "pending" /\ calls'[c].outcome = outcome

AiUninitialized(s) ==
  ~s.initialized /\ s.session = NoSession /\ s.modelBuffer = NoBuffer

DetUninitialized(s) == ~s.initialized /\ s.template = NoTemplate

FullInit(c, kind, did) ==
  /\ calls[c].kind = kind /\ calls[c].outcome = "resolved"
  /\ ~calls[c].early /\ calls[c].did = did

C7_FailedInitializeLeavesNothing ==
  [][\A c \in Calls :
       /\ Settles(c, "ai_initialize", "rejected") => AiUninitialized(ai'[calls[c].w])
       /\ Settles(c, "det_initialize", "rejected") => DetUninitialized(det')
  ]_vars

\* The cleanup() call k was posted after the initialize() call c, is the only
\* cleanup and has returned, and c is the only initialize(): since a worker
\* takes its calls in the order they were posted, k ran while c was in flight
\* if c is still pending.
CleanedUpInFlight(c, k, init, cleanup) ==
  /\ c < k
  /\ calls[c].kind = init /\ calls[c].outcome = "pending" /\ calls[c].pc # "posted"
  /\ calls[k].kind = cleanup /\ calls[k].pc = "done"
  /\ \A d \in Calls \ {c, k} : calls[d].kind \notin {init, cleanup}

\* C27: when cleanup() ran while an initialize() was in flight, the worker is
\* uninitialized and holds no session, model buffer or template once that
\* initialize() has completed too.
C27_CleanupNotUndone ==
  [][\A c, k \in Calls :
       /\ (CleanedUpInFlight(c, k, "ai_initialize", "ai_cleanup")
             /\ calls'[c].outcome # "pending") => AiUninitialized(ai'[calls[c].w])
       /\ (CleanedUpInFlight(c, k, "det_initialize", "det_cleanup")
             /\ calls'[c].outcome # "pending") => DetUninitialized(det')
  ]_vars

AllFailed(attempts) == \A i \in 1..Len(attempts) : ~attempts[i][2]

\* C8: the providers are attempted in the order webgpu (when enabled), wasm;
\* after a failure that is not the last provider's the call goes on to the
\* next provider instead of rejecting; a call that rejects after attempting a
\* provider has seen every provider fail; and at the step where a provider
\* succeeds, all earlier ones having failed, the worker holds the session that
\* provider created for this call and config.executionProvider names it.
C8_ProviderFallback ==
  [][\A c \in Calls :
       calls'[c].kind = "ai_initialize" =>
         LET order == ProviderOrder(useWebgpu)
             a == calls'[c].attempts
             n == Len(a) IN
           /\ n <= Len(order)
           /\ \A i \in 1..n : a[i][1] = order[i]
           /\ \A i \in 1..(n - 1) : ~a[i][2]
           /\ calls'[c].pc \in {"webgpu", "wasm"} =>
                AllFailed(a) /\ n < Len(order) /\ calls'[c].pc = order[n + 1]
           /\ (calls'[c].outcome = "rejected" /\ n > 0) =>
                AllFailed(a) /\ n = Len(order)
           /\ (Settles(c, "ai_initialize", "resolved") /\ ~calls'[c].early) =>
                /\ n > 0 /\ a[n][2]
                /\ ai'[calls[c].w].session = [provider |-> a[n][1], by |-> c]
                /\ ai'[calls[c].w].executionProvider = a[n][1]
  ]_vars

\* webgpu failed, wasm succeeded, and the wasm session is the one held.
C8_Witness ==
  \E c \in Calls :
    /\ calls[c].kind = "ai_initialize" /\ calls[c].outcome = "resolved"
    /\ calls[c].attempts = <<(<<"webgpu", FALSE>>), (<<"wasm", TRUE>>)>>
    /\ ai[calls[c].w].session = [provider |-> "wasm", by |-> c]
    /\ ai[calls[c].w].executionProvider = "wasm"
    /\ ai[calls[c].w].initialized


\* ------------------------------------------------------- badge detection
\* Confidences and thresholds are in hundredths, scales and the ROI share in
\* percent (lib/constants.ts, DETECTION_CONFIG).
ROI_PERCENT == 15
CONFIDENCE_THRESHOLD == 70
POSSIBLE_THRESHOLD == 50
SCALES == <<50, 75, 100, 125, 150>>

\* The images handed to detectBadge() (width, height), the template sizes and
\* the maxVal the template matching may report: below 0, between 0 and the
\* possible threshold, on it, above the confidence threshold, above 1.
ImageSizes == {<<6, 6>>, <<40, 60>>, <<100, 100>>, <<200, 60>>}
TemplateAssets == {[cols |-> 8, rows |-> 8], [cols |-> 16, rows |-> 12],
                   [cols |-> 24, rows |-> 24]}
Scores == {0 - 20, 30, 50, 80, 101}

\* Math.floor(n * p) and Math.round(n * p) for n >= 0 and p given in percent.
FloorPercent(n, pct) == (n * pct) \div 100
RoundPercent(n, pct) == (n * pct + 50) \div 100

\* matchAtScale(), lines 274-275.
ScaledSize(template, scale) ==
  [width |-> RoundPercent(template.cols, scale),
   height |-> RoundPercent(template.rows, scale)]

\* What cv.resize / cv.matchTemplate / cv.minMaxLoc may answer for a result
\* matrix whose last cell is (maxX, maxY): an exception, or a score at a place.
CvAnswers(maxX, maxY) ==
  {[throws |-> TRUE, maxVal |-> 0, maxLoc |-> <<0, 0>>]} \cup
  {[throws |-> FALSE, maxVal |-> v, maxLoc |-> l] :
     v \in Scores, l \in {<<0, 0>>, <<maxX, maxY>>}}

\* matchAtScale(), lines 259-320: null when the scaled template does not fit
\* or when OpenCV throws, else the best place with maxVal as it was reported.
MatchAtScale(cols, rows, template, scale, cv) ==
  LET size == ScaledSize(template, scale) IN
  IF size.width > cols \/ size.height > rows THEN NoMatch
  ELSE IF cv.throws THEN NoMatch
  ELSE [found |-> TRUE, x |-> cv.maxLoc[1], y |-> cv.maxLoc[2],
        width |-> size.width, height |-> size.height, confidence |-> cv.maxVal]

\* detectBadge(), lines 217-228: the body of the loop over the scales.
UpdateBestOnTie(d, match) ==
  IF match.found /\ match.confidence >= d.bestConfidence
    THEN [d EXCEPT !.bestConfidence = match.confidence,
                   !.bestMatch = [match EXCEPT !.x = d.roiX + match.x,
                                               !.y = d.roiY + match.y]]
    ELSE d
UpdateBest(d, match) ==
  IF match.found /\ match.confidence > d.bestConfidence
    THEN [d EXCEPT !.bestConfidence = match.confidence,
                   !.bestMatch = [match EXCEPT !.x = d.roiX + match.x,
                                               !.y = d.roiY + match.y]]
    ELSE d

\* detectBadge(), lines 231-244: what is returned after the loop.
DetectDecisionConfident(bestMatch) ==
  IF bestMatch.found /\ bestMatch.confidence >= CONFIDENCE_THRESHOLD
    THEN bestMatch ELSE NoMatch
DetectDecision(bestMatch) ==
  IF bestMatch.found /\ bestMatch.confidence >= POSSIBLE_THRESHOLD
    THEN bestMatch ELSE NoMatch

DetectMats(c) == {<<"src", c>>, <<"roi", c>>, <<"gray", c>>}

\* detectBadge(), lines 169-214: the guard, then the source, ROI and gray
\* Mats.  OpenCV may throw on the way (it does on an empty ROI); the finally
\* block then deletes what was allocated and the call rejects.
DetDetectCall(c) ==
  /\ Handling(c, "det_detect")
  /\ inbox' = Taken(c)
  /\ IF ~det.initialized \/ det.template = NoTemplate
       THEN /\ calls' = [calls EXCEPT ![c] = Reject(@, "Worker not initialized")]
            /\ UNCHANGED <<detect, liveMats>>
       ELSE LET roiWidth == FloorPercent(calls[c].size[1], ROI_PERCENT)
                roiHeight == FloorPercent(calls[c].size[2], ROI_PERCENT)
            IN \E ok \in BOOLEAN :
                 IF ok /\ roiWidth > 0 /\ roiHeight > 0
                   THEN /\ detect' = [NotDetecting EXCEPT
                             !.pc = "loop", !.c = c,
                             !.roiWidth = roiWidth, !.roiHeight = roiHeight,
                             !.roiX = calls[c].size[1] - roiWidth,
                             !.roiY = calls[c].size[2] - roiHeight]
                        /\ liveMats' = liveMats \cup DetectMats(c)
                        /\ calls' = [calls EXCEPT ![c].pc = "detecting"]
                   ELSE /\ calls' = [calls EXCEPT ![c] = Reject(@, "OpenCV error")]
                        /\ UNCHANGED <<detect, liveMats>>
  /\ UNCHANGED <<pageVars, cacheVars, libVars, client, asset, useWebgpu, aiLife, ai, det, cvLoaded>>

\* detectBadge(), lines 216-229: one turn of the loop.
DetMatchScale(c) ==
  /\ detect.pc = "loop" /\ detect.c = c
  /\ Len(detect.matches) < Len(SCALES)
  /\ LET scale == SCALES[Len(detect.matches) + 1]
         size == ScaledSize(asset, scale)
     IN \E cv \in CvAnswers(detect.roiWidth - size.width, detect.roiHeight - size.height) :
          LET match == MatchAtScale(detect.roiWidth, detect.roiHeight, asset, scale, cv)
          IN detect' = [UpdateBest(detect, match) EXCEPT !.matches = Append(@, match)]
  /\ UNCHANGED <<pageVars, cacheVars, libVars, client, asset, workerVars>>

\* detectBadge(), lines 231-244: the return statement is evaluated.
DetDetectReturn(c) ==
  /\ detect.pc = "loop" /\ detect.c = c
  /\ Len(detect.matches) = Len(SCALES)
  /\ detect' = [detect EXCEPT !.pc = "finally", !.result = DetectDecision(detect.bestMatch)]
  /\ UNCHANGED <<pageVars, cacheVars, libVars, client, asset, workerVars>>

\* detectBadge(), lines 248-253: the finally block, and the call returns.
DetDetectFinally(c) ==
  /\ detect.pc = "finally" /\ detect.c = c
  /\ liveMats' = liveMats \ DetectMats(c)
  /\ calls' = [calls EXCEPT ![c] = [Resolve(@) EXCEPT !.match = detect.result]]
  /\ detect' = NotDetecting
  /\ UNCHANGED <<pageVars, cacheVars, libVars, client, asset, useWebgpu, aiLife, ai, det, cvLoaded, inbox>>

\* The client of the detection worker in a detection run: it initializes the
\* worker and submits one image, in either order and without waiting.  A
\* message that arrives during detectBadge() waits until it has returned, so
\* it is taken to arrive afterwards.
DetectPost(c) ==
  /\ detect.pc = "idle"
  /\ IF c = 1 THEN TRUE ELSE calls[c - 1].kind # "none"
  /\ calls[c].kind = "none"
  /\ \/ /\ \A d \in Calls : calls[d].kind # "det_initialize"
        /\ calls' = [calls EXCEPT ![c] =
             [NoCall EXCEPT !.kind = "det_initialize", !.w = DetWorker,
                            !.pc = "posted", !.outcome = "pending"]]
     \/ /\ \A d \in Calls : calls[d].kind # "det_detect"
        /\ \E size \in ImageSizes :
             calls' = [calls EXCEPT ![c] =
               [NoCall EXCEPT !.kind = "det_detect", !.w = DetWorker, !.pc = "posted",
                              !.outcome = "pending", !.size = size]]
  /\ inbox' = [inbox EXCEPT ![DetWorker] = Append(@, c)]
  /\ UNCHANGED <<pageVars, cacheVars, libVars, client, asset, detect, useWebgpu, aiLife, ai, det, cvLoaded, liveMats>>

DetectInit ==
  /\ client = DetWorker
  /\ asset \in TemplateAssets
  /\ detect = NotDetecting
  /\ PageFresh /\ CacheFresh /\ LibFresh
  /\ useWebgpu = FALSE
  /\ aiLife = [w \in Workers |-> IF w = 1 THEN "running" ELSE "unborn"]
  /\ ai = [w \in Workers |-> AiFresh]
  /\ det = DetFresh
  /\ cvLoaded = FALSE
  /\ liveMats = {}
  /\ inbox = [w \in Workers \cup {DetWorker} |-> <<>>]
  /\ calls = [c \in Calls |-> NoCall]

DetectNext ==
  \E c \in Calls :
    \/ DetectPost(c)
    \/ DetInitializeCall(c)
    \/ DetCvWaitDone(c)
    \/ DetFetchDone(c)
    \/ DetBlobDone(c)
    \/ DetBitmapDone(c)
    \/ DetDetectCall(c)
    \/ DetMatchScale(c)
    \/ DetDetectReturn(c)
    \/ DetDetectFinally(c)

SpecDetect == DetectInit /\ [][DetectNext]_vars


\* ------------------------------------------------------ detection claims
Max(S) == CHOOSE m \in S : \A n \in S : n <= m

\* The scales whose resized template fits inside the ROI of the current call.
Fitting ==
  {i \in 1..Len(SCALES) :
     /\ ScaledSize(asset, SCALES[i]).width <= detect.roiWidth
     /\ ScaledSize(asset, SCALES[i]).height <= detect.roiHeight}

\* A candidate of the ROI, in the coordinates of the whole image.
InImage(m) == [m EXCEPT !.x = detect.roiX + m.x, !.y = detect.roiY + m.y]

C3_EarliestBestCandidate ==
  detect.pc \in {"loop", "finally"} =>
    LET found == {i \in 1..Len(detect.matches) : detect.matches[i].found}
        confs == {detect.matches[i].confidence : i \in found}
        top == Max(confs)
        first == CHOOSE i \in found :
                   /\ detect.matches[i].confidence = top
                   /\ \A j \in found : detect.matches[j].confidence = top => i <= j
    IN /\ detect.bestConfidence = Max(confs \cup {0})
       /\ detect.bestMatch =
            (IF confs = {} THEN NoMatch
             ELSE IF top <= 0 THEN NoMatch
             ELSE InImage(detect.matches[first]))
       /\ (detect.pc = "finally" /\ detect.result.found) =>
            detect.result = InImage(detect.matches[first])

\* Two scales tie on the largest confidence and a result is returned.
C3_Witness ==
  /\ detect.pc = "finally"
  /\ detect.result.found
  /\ \E i, j \in 1..Len(detect.matches) :
       /\ i < j
       /\ detect.matches[i].found /\ detect.matches[j].found
       /\ detect.matches[i].confidence = detect.result.confidence
       /\ detect.matches[j].confidence = detect.result.confidence

\* C4: every non-null result detectBadge() returns has a confidence between
\* 0 and 1, whatever score the template matching reported.
C4_ConfidenceInRange ==
  \A c \in Calls :
    (calls[c].kind = "det_detect" /\ calls[c].outcome = "resolved" /\ calls[c].match.found)
      => (0 <= calls[c].match.confidence /\ calls[c].match.confidence <= 100)


\* ------------------------------------------------- patch-based inpainting
PATCH_PADDING == 100
MIN_OUTPUT_VARIANCE == 500

MinOf(S) == CHOOSE m \in S : \A n \in S : m <= n
MaxOf(S) == CHOOSE m \in S : \A n \in S : n <= m

\* data[(y * width + x) * 4 + ch] of an ImageData.
Channel(img, x, y, ch) == img.data[(y * img.width + x) * 4 + ch + 1]

\* The pixel positions (x, y) of an image of the given size.
Grid(w, h) == (0..(w - 1)) \X (0..(h - 1))

\* The ImageData of the given size whose pixel at (x, y) is pixels[<<x, y>>].
MakeImage(w, h, pixels) ==
  [width |-> w, height |-> h,
   data |-> [k \in 1..(w * h * 4) |->
               pixels[<<((k - 1) \div 4) % w, ((k - 1) \div 4) \div w>>][((k - 1) % 4) + 1]]]

\* extractWatermarkPatch(), lines 240-265: the bounding box of the mask's
\* pixels whose red channel is above 128, and the padded patch rectangle.
PatchBoundsUnclamped(image, mask, padding) ==
  LET white == {xy \in Grid(image.width, image.height) :
                  Channel(mask, xy[1], xy[2], 0) > 128}
      minX == MinOf({xy[1] : xy \in white} \cup {image.width})
      minY == MinOf({xy[2] : xy \in white} \cup {image.height})
      maxX == MaxOf({xy[1] : xy \in white} \cup {0})
      maxY == MaxOf({xy[2] : xy \in white} \cup {0})
      patchX == IF minX - padding > 0 THEN minX - padding ELSE 0
      patchY == IF minY - padding > 0 THEN minY - padding ELSE 0
  IN [x |-> patchX, y |-> patchY,
      width |-> maxX - minX + padding * 2,
      height |-> maxY - minY + padding * 2]
PatchBounds(image, mask, padding) ==
  LET white == {xy \in Grid(image.width, image.height) :
                  Channel(mask, xy[1], xy[2], 0) > 128}
      minX == MinOf({xy[1] : xy \in white} \cup {image.width})
      minY == MinOf({xy[2] : xy \in white} \cup {image.height})
      maxX == MaxOf({xy[1] : xy \in white} \cup {0})
      maxY == MaxOf({xy[2] : xy \in white} \cup {0})
      patchX == IF minX - padding > 0 THEN minX - padding ELSE 0
      patchY == IF minY - padding > 0 THEN minY - padding ELSE 0
  IN [x |-> patchX, y |-> patchY,
      width |-> MinOf({image.width - patchX, maxX - minX + padding * 2}),
      height |-> MinOf({image.height - patchY, maxY - minY + padding * 2})]

\* extractWatermarkPatch(), lines 294-322: the mask is drawn on a canvas and
\* the patch rectangle read back; exact for the opaque masks the service
\* makes.  What lies outside the source canvas is drawn as transparent black.
PatchMask(mask, b) ==
  MakeImage(b.width, b.height,
            [p \in Grid(b.width, b.height) |->
               IF /\ 0 <= b.x + p[1] /\ b.x + p[1] < mask.width
                  /\ 0 <= b.y + p[2] /\ b.y + p[2] < mask.height
                 THEN [ch \in 1..4 |-> Channel(mask, b.x + p[1], b.y + p[2], ch - 1)]
                 ELSE <<0, 0, 0, 0>>])

\* compositePatchToImage(), lines 531-544: Math.round(o * (1 - m / 255) +
\* p * (m / 255)); the exact value is never half way between two integers.
BlendOpaque(o, p, m) == p
Blend(o, p, m) == (2 * (o * (255 - m) + p * m) + 255) \div 510

\* compositePatchToImage(), lines 499-505 left out: the result is a new,
\* cleared ImageData into which only the patch is written.
CompositeWithoutCopy(originalImage, inpaintedPatch, patchMask, offsetX, offsetY) ==
  MakeImage(originalImage.width, originalImage.height,
    [p \in Grid(originalImage.width, originalImage.height) |->
      IF /\ offsetX <= p[1] /\ p[1] < offsetX + inpaintedPatch.width
         /\ offsetY <= p[2] /\ p[2] < offsetY + inpaintedPatch.height
        THEN [ch \in 1..4 |->
                IF ch = 4 THEN 255
                ELSE Blend(Channel(originalImage, p[1], p[2], ch - 1),
                           Channel(inpaintedPatch, p[1] - offsetX, p[2] - offsetY, ch - 1),
                           Channel(patchMask, p[1] - offsetX, p[2] - offsetY, 0))]
        ELSE [ch \in 1..4 |-> 0]])

\* compositePatchToImage(), lines 492-554.
CompositePatchToImage(originalImage, inpaintedPatch, patchMask, offsetX, offsetY) ==
  MakeImage(originalImage.width, originalImage.height,
    [p \in Grid(originalImage.width, originalImage.height) |->
      IF /\ offsetX <= p[1] /\ p[1] < offsetX + inpaintedPatch.width
         /\ offsetY <= p[2] /\ p[2] < offsetY + inpaintedPatch.height
        THEN [ch \in 1..4 |->
                IF ch = 4 THEN 255
                ELSE Blend(Channel(originalImage, p[1], p[2], ch - 1),
                           Channel(inpaintedPatch, p[1] - offsetX, p[2] - offsetY, ch - 1),
                           Channel(patchMask, p[1] - offsetX, p[2] - offsetY, 0))]
        ELSE [ch \in 1..4 |-> Channel(originalImage, p[1], p[2], ch - 1)]])

\* validateInpaintingResult(), lines 560-607: the sum over R, G, B of the
\* population variances is at least MIN_OUTPUT_VARIANCE; with N pixels the
\* variance of a channel is (N * sum(v^2) - sum(v)^2) / N^2.
RECURSIVE SumTo(_, _, _, _)
SumTo(img, i, ch, power) ==
  IF i = 0 THEN 0
  ELSE SumTo(img, i - 1, ch, power) +
       (IF power = 2 THEN img.data[(i - 1) * 4 + ch + 1] * img.data[(i - 1) * 4 + ch + 1]
        ELSE img.data[(i - 1) * 4 + ch + 1])

\* validateInpaintingResult() that adds the variance of the alpha channel.
ValidateWithAlpha(imageData) ==
  LET totalPixels == imageData.width * imageData.height
      ScaledVariance(ch) ==
        totalPixels * SumTo(imageData, totalPixels, ch, 2)
          - SumTo(imageData, totalPixels, ch, 1) * SumTo(imageData, totalPixels, ch, 1)
  IN ScaledVariance(0) + ScaledVariance(1) + ScaledVariance(2) + ScaledVariance(3)
       >= MIN_OUTPUT_VARIANCE * totalPixels * totalPixels
ValidateInpaintingResult(imageData) ==
  LET totalPixels == imageData.width * imageData.height
      ScaledVariance(ch) ==
        totalPixels * SumTo(imageData, totalPixels, ch, 2)
          - SumTo(imageData, totalPixels, ch, 1) * SumTo(imageData, totalPixels, ch, 1)
  IN ScaledVariance(0) + ScaledVariance(1) + ScaledVariance(2)
       >= MIN_OUTPUT_VARIANCE * totalPixels * totalPixels

\* postprocessPatchOutput(), lines 410-487: whatever the engine's tensor is,
\* the patch is an opaque image of the extracted patch's size.  Flat outputs
\* and two-tone outputs of low and of high contrast stand for them.
PatchOutputs(w, h) ==
  {MakeImage(w, h, [p \in Grid(w, h) |-> <<v, v, v, 255>>]) : v \in {0, 128}} \cup
  {MakeImage(w, h, [p \in Grid(w, h) |->
                      IF (p[1] + p[2]) % 2 = 0 THEN <<t[1], t[1], t[1], 255>>
                      ELSE <<t[2], t[2], t[2], 255>>]) :
     t \in {<<120, 140>>, <<0, 255>>}}

\* inpaint(), lines 197-217: a patch the validator rejects is only logged.
InpaintSettleStrict(call, patch, result) ==
  IF ValidateInpaintingResult(patch)
    THEN [Resolve(call) EXCEPT !.patch = patch, !.result = result]
    ELSE [Reject(call, "Output validation failed") EXCEPT !.patch = patch, !.warned = TRUE]
InpaintSettle(call, patch, result) ==
  [Resolve(call) EXCEPT !.patch = patch, !.result = result,
                        !.warned = ~ValidateInpaintingResult(patch)]

\* inpaint() without its guard.
AiInpaintCallUnguarded(c) ==
  /\ Handling(c, "ai_inpaint")
  /\ inbox' = Taken(c)
  /\ LET b == PatchBounds(calls[c].image, calls[c].mask, calls[c].padding)
     IN calls' = [calls EXCEPT ![c] =
          IF b.width <= 0 \/ b.height <= 0
            THEN Reject(@, "canvas error")
          ELSE [@ EXCEPT !.pc = "run"]]
  /\ UNCHANGED <<pageVars, cacheVars, libVars, client, asset, detect, useWebgpu, aiLife, ai, det, cvLoaded, liveMats>>

\* inpaint(), lines 149-178: the guard, the patch extraction (a patch
\* rectangle without pixels makes the canvas calls throw), the tensors, and
\* the await of session.run.
AiInpaintCall(c) ==
  /\ Handling(c, "ai_inpaint")
  /\ inbox' = Taken(c)
  /\ LET me == ai[calls[c].w]
         b == PatchBounds(calls[c].image, calls[c].mask, calls[c].padding)
     IN calls' = [calls EXCEPT ![c] =
          IF ~me.initialized \/ me.session = NoSession
            THEN Reject(@, "Worker not initialized")
          ELSE IF b.width <= 0 \/ b.height <= 0
            THEN Reject(@, "canvas error")
          ELSE [@ EXCEPT !.pc = "run"]]
  /\ UNCHANGED <<pageVars, cacheVars, libVars, client, asset, detect, useWebgpu, aiLife, ai, det, cvLoaded, liveMats>>

\* inpaint(), lines 178-223: session.run settles; its output is decoded,
\* validated and composited into a copy of the original image.
AiInpaintRunDone(c) ==
  /\ At(c, "ai_inpaint", "run")
  /\ LET b == PatchBounds(calls[c].image, calls[c].mask, calls[c].padding)
     IN \/ calls' = [calls EXCEPT ![c] = Reject(@, "inference failed")]
        \/ \E inpaintedPatch \in PatchOutputs(b.width, b.height) :
             calls' = [calls EXCEPT ![c] =
               InpaintSettle(@, inpaintedPatch,
                 CompositePatchToImage(calls[c].image, inpaintedPatch,
                                       PatchMask(calls[c].mask, b), b.x, b.y))]
  /\ UNCHANGED <<pageVars, cacheVars, libVars, client, asset, detect, useWebgpu, aiLife, ai, det, cvLoaded, liveMats, inbox>>

\* The images and masks handed to inpaint(): images of a few sizes made of
\* opaque, translucent and transparent pixels, masks that are empty or have a
\* white pixel surrounded by a ring of a lighter or darker gray.
Palette == <<(<<10, 20, 30, 255>>), (<<200, 100, 50, 128>>), (<<0, 0, 0, 0>>),
             (<<255, 255, 255, 255>>)>>
InpaintSizes == {<<1, 1>>, <<3, 2>>, <<4, 4>>}
PatchPaddings == {1, PATCH_PADDING}
RingValues == {0, 100, 200}

Images(w, h) ==
  {MakeImage(w, h, [p \in Grid(w, h) |->
                      Palette[((p[1] + 2 * p[2] + shift) % Len(Palette)) + 1]]) :
     shift \in 0..(Len(Palette) - 1)}

Masks(w, h) ==
  {MakeImage(w, h, [p \in Grid(w, h) |-> <<0, 0, 0, 255>>])} \cup
  {MakeImage(w, h, [p \in Grid(w, h) |->
     LET v == IF p = c THEN 255
              ELSE IF p[1] - c[1] \in {0 - 1, 0, 1} /\ p[2] - c[2] \in {0 - 1, 0, 1} THEN ring
              ELSE 0
     IN <<v, v, v, 255>>]) :
     c \in Grid(w, h), ring \in RingValues}

\* The client of the AI worker in an inpainting run: it initializes the worker,
\* submits one image and cleans up, in any order and without waiting.
InpaintPost(c) ==
  /\ IF c = 1 THEN TRUE ELSE calls[c - 1].kind # "none"
  /\ calls[c].kind = "none"
  /\ \/ \E kind \in {"ai_initialize", "ai_cleanup"} :
          /\ \A d \in Calls : calls[d].kind # kind
          /\ calls' = [calls EXCEPT ![c] =
               [NoCall EXCEPT !.kind = kind, !.w = 1, !.pc = "posted",
                              !.outcome = "pending"]]
     \/ /\ \A d \in Calls : calls[d].kind # "ai_inpaint"
        /\ \E size \in InpaintSizes, padding \in PatchPaddings :
             \E image \in Images(size[1], size[2]), mask \in Masks(size[1], size[2]) :
               calls' = [calls EXCEPT ![c] =
                 [NoCall EXCEPT !.kind = "ai_inpaint", !.w = 1, !.pc = "posted",
                                !.outcome = "pending", !.image = image, !.mask = mask,
                                !.padding = padding]]
  /\ inbox' = [inbox EXCEPT ![1] = Append(@, c)]
  /\ UNCHANGED <<pageVars, cacheVars, libVars, client, asset, detect, useWebgpu, aiLife, ai, det, cvLoaded, liveMats>>

InpaintInit ==
  /\ client = 1
  /\ asset = DefaultAsset
  /\ detect = NotDetecting
  /\ PageFresh /\ CacheFresh /\ LibFresh
  /\ useWebgpu = FALSE
  /\ aiLife = [w \in Workers |-> IF w = 1 THEN "running" ELSE "unborn"]
  /\ ai = [w \in Workers |-> AiFresh]
  /\ det = DetFresh
  /\ cvLoaded = FALSE
  /\ liveMats = {}
  /\ inbox = [w \in Workers \cup {DetWorker} |-> <<>>]
  /\ calls = [c \in Calls |-> NoCall]

InpaintNext ==
  \E c \in Calls :
    \/ InpaintPost(c)
    \/ AiInitializeCall(c)
    \/ AiFetchDone(c)
    \/ AiReadChunk(c)
    \/ AiReadError(c)
    \/ AiReadDone(c)
    \/ AiWasmDone(c)
    \/ AiCleanupCall(c)
    \/ AiInpaintCall(c)
    \/ AiInpaintRunDone(c)

SpecInpaint == InpaintInit /\ [][InpaintNext]_vars


\* ----------------------------------------------------- inpainting claims
Returned(c) == calls[c].kind = "ai_inpaint" /\ calls[c].outcome = "resolved"

PixelsOf(img) == Grid(img.width, img.height)

InPatch(c, x, y) ==
  LET b == PatchBounds(calls[c].image, calls[c].mask, calls[c].padding)
  IN b.x <= x /\ x < b.x + b.width /\ b.y <= y /\ y < b.y + b.height

C5_ValidatorRejectionNotFatal ==
  [][\A c \in Calls :
       (/\ calls[c].kind = "ai_inpaint" /\ calls[c].pc = "run"
        /\ calls'[c].pc = "done"
        /\ calls'[c].patch # NoImage
        /\ ~ValidateInpaintingResult(calls'[c].patch))
       => LET b == PatchBounds(calls[c].image, calls[c].mask, calls[c].padding)
          IN /\ calls'[c].outcome = "resolved"
             /\ calls'[c].result =
                  CompositePatchToImage(calls[c].image, calls'[c].patch,
                                        PatchMask(calls[c].mask, b), b.x, b.y)
             /\ ai' = ai
  ]_vars

\* A rejected patch was composited and returned, and the worker is still
\* initialized with its session.
C5_Witness ==
  \E c \in Calls :
    /\ Returned(c)
    /\ calls[c].warned
    /\ calls[c].result # calls[c].image
    /\ ai[1].initialized /\ ai[1].session # NoSession


\* ------------------------------------- the page and the inpainting service
\* The ImageData inpaintImage() reads from the dropped file and the mask
\* createFixedPositionMask() makes for it (a single marked pixel stands for
\* them; what the image holds plays no part in how the calls are ordered).
DroppedImage == MakeImage(1, 1, [p \in Grid(1, 1) |-> Palette[1]])
DroppedMask == MakeImage(1, 1, [p \in Grid(1, 1) |-> <<255, 255, 255, 255>>])

FreeSlot ==
  CHOOSE c \in Calls :
    calls[c].kind = "none" /\ \A d \in Calls : calls[d].kind = "none" => c <= d

UnbornWorker ==
  CHOOSE w \in Workers :
    aiLife[w] = "unborn" /\ \A v \in Workers : aiLife[v] = "unborn" => w <= v

\* A call through the comlink proxy of worker w, on call slot c.
Remote(kind, w) ==
  [NoCall EXCEPT !.kind = kind, !.w = w, !.pc = "posted", !.outcome = "pending"]

\* page.tsx, lines 78-84: the catch block of onDrop() calls reset().
DropFails(d) ==
  /\ drops' = [drops EXCEPT ![d] = [pc |-> "done", c |-> 0, outcome |-> "failed"]]
  /\ appState' = "ready"
  /\ images' = NoImages

\* page.tsx, lines 42-47: the model has been loaded.
PageModelReady ==
  /\ appState = "loading"
  /\ appState' = "ready"
  /\ UNCHANGED <<images, drops, aiWorker, cacheVars, libVars, client, asset, detect, workerVars>>

\* page.tsx, lines 59-66 and 90-100, 155-157: a file is dropped on the
\* dropzone, which is shown in state ready; onDrop() awaits file.arrayBuffer().
PageDrop(d) ==
  /\ appState = "ready"
  /\ drops[d].pc = "idle"
  /\ IF d = 1 THEN TRUE ELSE drops[d - 1].pc # "idle"
  /\ drops' = [drops EXCEPT ![d].pc = "reading"]
  /\ UNCHANGED <<store, aiWorker, cacheVars, libVars, client, asset, detect, workerVars>>

\* page.tsx, lines 66-72, and inpaintImage(), lines 329-334: the file has
\* been read (or not); setOriginalImage() moves the store to processing and
\* inpaintImage() awaits createImageBitmap().
PageFileRead(d) ==
  /\ drops[d].pc = "reading"
  /\ \E ok \in BOOLEAN :
       IF ok
         THEN /\ appState' = "processing"
              /\ images' = [images EXCEPT !.originalImage = d]
              /\ drops' = [drops EXCEPT ![d].pc = "bitmap"]
         ELSE DropFails(d)
  /\ UNCHANGED <<aiWorker, cacheVars, libVars, client, asset, detect, workerVars>>

\* ensureAIWorker(), lines 41-47: with an aiApi, isInitialized() is asked of
\* it; lines 49-60: without one a worker is created, stored and asked to
\* initialize.
EnsureAIWorker(d, c) ==
  IF aiWorker # 0
    THEN /\ calls' = [calls EXCEPT ![c] = Remote("ai_isInitialized", aiWorker)]
         /\ inbox' = [inbox EXCEPT ![aiWorker] = Append(@, c)]
         /\ drops' = [drops EXCEPT ![d].pc = "isinit", ![d].c = c]
         /\ UNCHANGED <<aiWorker, aiLife>>
    ELSE /\ \E w \in Workers : aiLife[w] = "unborn"
         /\ aiLife' = [aiLife EXCEPT ![UnbornWorker] = "running"]
         /\ aiWorker' = UnbornWorker
         /\ calls' = [calls EXCEPT ![c] = Remote("ai_initialize", UnbornWorker)]
         /\ inbox' = [inbox EXCEPT ![UnbornWorker] = Append(@, c)]
         /\ drops' = [drops EXCEPT ![d].pc = "init", ![d].c = c]

\* inpaintImage(), lines 347-354: the mask is made and inpaint() is called
\* on the api ensureAIWorker() returned, this.aiApi as it is at its return.
CallInpaint(d, c) ==
  /\ calls' = [calls EXCEPT ![c] =
       [Remote("ai_inpaint", aiWorker) EXCEPT
          !.image = DroppedImage, !.mask = DroppedMask, !.padding = PATCH_PADDING]]
  /\ inbox' = [inbox EXCEPT ![aiWorker] = Append(@, c)]
  /\ drops' = [drops EXCEPT ![d].pc = "inpaint", ![d].c = c]

\* inpaintImage(), lines 334-345: the bitmap is decoded (or not) and drawn,
\* and ensureAIWorker() starts.
SvcBitmapDone(d) ==
  /\ drops[d].pc = "bitmap"
  /\ \E ok \in BOOLEAN :
       IF ok
         THEN /\ \E c \in Calls : calls[c].kind = "none"
              /\ EnsureAIWorker(d, FreeSlot)
              /\ UNCHANGED store
         ELSE /\ DropFails(d)
              /\ UNCHANGED <<aiWorker, aiLife, calls, inbox>>
  /\ UNCHANGED <<cacheVars, libVars, client, asset, detect, useWebgpu, ai, det, cvLoaded, liveMats>>

\* ensureAIWorker(), lines 43-60: isInitialized() has answered.
SvcIsInitDone(d) ==
  /\ drops[d].pc = "isinit"
  /\ calls[drops[d].c].pc = "done"
  /\ IF calls[drops[d].c].ret
       THEN /\ CallInpaint(d, drops[d].c)
            /\ UNCHANGED <<aiWorker, aiLife>>
       ELSE /\ \E w \in Workers : aiLife[w] = "unborn"
            /\ aiLife' = [aiLife EXCEPT ![UnbornWorker] = "running"]
            /\ aiWorker' = UnbornWorker
            /\ calls' = [calls EXCEPT ![drops[d].c] = Remote("ai_initialize", UnbornWorker)]
            /\ inbox' = [inbox EXCEPT ![UnbornWorker] = Append(@, drops[d].c)]
            /\ drops' = [drops EXCEPT ![d].pc = "init"]
  /\ UNCHANGED <<store, cacheVars, libVars, client, asset, detect, useWebgpu, ai, det,
                 cvLoaded, liveMats>>

\* ensureAIWorker(), lines 60-69: initialize() has settled.
SvcInitDone(d) ==
  /\ drops[d].pc = "init"
  /\ calls[drops[d].c].pc = "done"
  /\ IF calls[drops[d].c].outcome = "resolved"
       THEN /\ CallInpaint(d, drops[d].c)
            /\ UNCHANGED store
       ELSE /\ calls' = [calls EXCEPT ![drops[d].c] = NoCall]
            /\ DropFails(d)
            /\ UNCHANGED inbox
  /\ UNCHANGED <<aiWorker, cacheVars, libVars, client, asset, detect, useWebgpu, aiLife, ai, det,
                 cvLoaded, liveMats>>

\* inpaintImage(), lines 351-360: inpaint() has settled; the result is put
\* on a canvas and convertToBlob() is awaited.
SvcInpaintDone(d) ==
  /\ drops[d].pc = "inpaint"
  /\ calls[drops[d].c].pc = "done"
  /\ calls' = [calls EXCEPT ![drops[d].c] = NoCall]
  /\ IF calls[drops[d].c].outcome = "resolved"
       THEN /\ drops' = [drops EXCEPT ![d].pc = "blob", ![d].c = 0]
            /\ UNCHANGED store
       ELSE DropFails(d)
  /\ UNCHANGED <<aiWorker, cacheVars, libVars, client, asset, detect, useWebgpu, aiLife, ai, det,
                 cvLoaded, liveMats, inbox>>

\* inpaintImage(), lines 357-368, and page.tsx, lines 72-76: the blob is
\* there (or not) and setCleanedImage() moves the store to complete.
SvcBlobDone(d) ==
  /\ drops[d].pc = "blob"
  /\ \E ok \in BOOLEAN :
       IF ok
         THEN /\ drops' = [drops EXCEPT ![d] =
                   [pc |-> "done", c |-> 0, outcome |-> "succeeded"]]
              /\ appState' = "complete"
              /\ images' = [images EXCEPT !.cleanedImage = d]
         ELSE DropFails(d)
  /\ UNCHANGED <<aiWorker, cacheVars, libVars, client, asset, detect, workerVars>>

\* page.tsx, lines 117-119: "try another".
PageReset ==
  /\ appState = "complete"
  /\ appState' = "ready"
  /\ images' = NoImages
  /\ UNCHANGED <<drops, aiWorker, cacheVars, libVars, client, asset, detect, workerVars>>

ServiceInit ==
  /\ client = 1
  /\ asset = DefaultAsset
  /\ detect = NotDetecting
  /\ PageFresh /\ CacheFresh /\ LibFresh
  /\ useWebgpu = FALSE
  /\ aiLife = [w \in Workers |-> "unborn"]
  /\ ai = [w \in Workers |-> AiFresh]
  /\ det = DetFresh
  /\ cvLoaded = FALSE
  /\ liveMats = {}
  /\ inbox = [w \in Workers \cup {DetWorker} |-> <<>>]
  /\ calls = [c \in Calls |-> NoCall]

ServiceNext ==
  \/ PageModelReady
  \/ PageReset
  \/ \E d \in Drops :
       \/ PageDrop(d)
       \/ PageFileRead(d)
       \/ SvcBitmapDone(d)
       \/ SvcIsInitDone(d)
       \/ SvcInitDone(d)
       \/ SvcInpaintDone(d)
       \/ SvcBlobDone(d)
  \/ \E c \in Calls :
       \/ AiInitializeCall(c)
       \/ AiFetchDone(c)
       \/ AiReadChunk(c)
       \/ AiReadError(c)
       \/ AiReadDone(c)
       \/ AiWasmDone(c)
       \/ AiIsInitializedCall(c)
       \/ AiInpaintCall(c)
       \/ AiInpaintRunDone(c)

SpecService == ServiceInit /\ [][ServiceNext]_vars

\* -------------------------------------------------------- service claims
InFlight(w) ==
  {c \in Calls : calls[c].kind = "ai_inpaint" /\ calls[c].w = w /\ calls[c].pc = "run"}

\* C9: at any time at most one session.run is in flight on an engine
\* instance, whatever the order of the drops and of the calls to
\* inpaintImage().
C9_OneInferenceInFlight ==
  \A w \in Workers : Cardinality(InFlight(w)) <= 1

\* isAIInitialized(), lines 436-438.
IsAIInitialized == aiWorker # 0

\* C26: whatever the order of the calls of the service, at most one AI worker
\* is running (every worker the service replaced was terminated), and
\* isAIInitialized() answers true only when the worker the service holds has
\* completed initialize().
C26_OneWorkerAndHonestFlag ==
  /\ Cardinality({w \in Workers : aiLife[w] = "running"}) <= 1
  /\ IsAIInitialized => ai[aiWorker].initialized

\* C26, its first half alone: at most one AI worker is running.
C26_OneLiveWorker == Cardinality({w \in Workers : aiLife[w] = "running"}) <= 1

\* The store is complete with the result of the image it shows.
CompleteIsOfCurrentImage ==
  appState = "complete" =>
    /\ images.originalImage # 0
    /\ images.cleanedImage # 0
    /\ images.cleanedImage = images.originalImage

\* onDrop() call d settles (setCleanedImage() or the reset() of its catch
\* block) while the store holds the image of a later call e.
SettlesOverLater(d, e) ==
  /\ d < e
  /\ drops[d].pc # "done" /\ drops'[d].pc = "done"
  /\ drops[e].pc \notin {"idle", "reading", "done"}
  /\ images.originalImage = e

\* C30: in the page and its store, whatever the order of drops, completions,
\* failures and resets, a complete store holds an original image and a cleaned
\* image, the cleaned image being the result of that original image; and the
\* completion or failure of an earlier onDrop() call leaves the store alone
\* once a later call has put its image there.
C30_CompleteIsResultOfCurrentImage ==
  /\ []CompleteIsOfCurrentImage
  /\ [][\A d, e \in Drops : SettlesOverLater(d, e) => UNCHANGED store]_vars

\* C30, its first half alone.
C30_CompleteHoldsBothImages ==
  appState = "complete" => (images.originalImage # 0 /\ images.cleanedImage # 0)

\* C30, its second half alone.
C30_EarlierLeavesLaterAlone ==
  [][\A d, e \in Drops : SettlesOverLater(d, e) => UNCHANGED store]_vars

\* ------------------------------------------------------- the model cache
\* The outcome of a settled promise (a promise settles once: later calls of
\* resolve and reject do nothing).

Settled(check, outcome, value) ==
  IF check.outcome = "pending"
    THEN [check EXCEPT !.outcome = outcome, !.value = value]
    ELSE check

\* isModelCached(), lines 72-75, and initDB(), lines 24-37: the call starts;
\* with this.db set initDB() returns it, else it opens the database.
CheckStart(k) ==
  /\ checks[k].pc = "idle"
  /\ IF k = 1 THEN TRUE ELSE checks[k - 1].pc # "idle"
  /\ \E url \in Urls :
       checks' = [checks EXCEPT ![k] =
         [NoCheck EXCEPT !.url = url, !.outcome = "pending",
                         !.pc = IF db THEN "initialized" ELSE "opening"]]
  /\ UNCHANGED <<db, stored, pageVars, libVars, client, asset, detect, workerVars>>

\* initDB(), lines 39-50, and isModelCached(), lines 101-105: the open request
\* succeeds and this.db is set, or it fails and the catch block returns false.
CheckOpenDone(k) ==
  /\ checks[k].pc = "opening"
  /\ \E ok \in BOOLEAN :
       IF ok
         THEN /\ db' = TRUE
              /\ checks' = [checks EXCEPT ![k].pc = "initialized"]
         ELSE /\ UNCHANGED db
              /\ checks' = [checks EXCEPT ![k] =
                   [Settled(@, "resolved", FALSE) EXCEPT !.pc = "done"]]
  /\ UNCHANGED <<stored, pageVars, libVars, client, asset, detect, workerVars>>

\* isModelCached(), lines 77-100: the promise is made and returned without
\* being awaited, so the call settles as the promise does.  db.transaction()
\* throws inside the executor (the promise rejects), or the get request is
\* made and the timer armed.
CheckTransaction(k) ==
  /\ checks[k].pc = "initialized"
  /\ \E throws \in BOOLEAN :
       checks' = [checks EXCEPT ![k] =
         IF throws
           THEN [Settled(@, "rejected", FALSE) EXCEPT !.pc = "done"]
           ELSE [@ EXCEPT !.pc = "promise", !.get = "pending", !.timer = "armed"]]
  /\ UNCHANGED <<db, stored, pageVars, libVars, client, asset, detect, workerVars>>

\* isModelCached(), lines 83-86: request.onsuccess.
CheckGetSuccess(k) ==
  /\ checks[k].get = "pending"
  /\ checks' = [checks EXCEPT ![k] =
       [Settled(@, "resolved", checks[k].url \in stored) EXCEPT !.get = "done"]]
  /\ UNCHANGED <<db, stored, pageVars, libVars, client, asset, detect, workerVars>>

\* isModelCached(), lines 88-92: request.onerror.
CheckGetError(k) ==
  /\ checks[k].get = "pending"
  /\ checks' = [checks EXCEPT ![k] =
       [Settled(@, "rejected", FALSE) EXCEPT !.get = "done"]]
  /\ UNCHANGED <<db, stored, pageVars, libVars, client, asset, detect, workerVars>>

\* isModelCached(), lines 95-98: the 5 second timer fires.
CheckTimeout(k) ==
  /\ checks[k].timer = "armed"
  /\ checks' = [checks EXCEPT ![k] =
       [Settled(@, "resolved", FALSE) EXCEPT !.timer = "fired"]]
  /\ UNCHANGED <<db, stored, pageVars, libVars, client, asset, detect, workerVars>>

CacheInit ==
  /\ client = 1
  /\ asset = DefaultAsset
  /\ detect = NotDetecting
  /\ PageFresh /\ LibFresh
  /\ db = FALSE
  /\ stored \in SUBSET Urls
  /\ checks = [k \in Checks |-> NoCheck]
  /\ useWebgpu = FALSE
  /\ aiLife = [w \in Workers |-> "unborn"]
  /\ ai = [w \in Workers |-> AiFresh]
  /\ det = DetFresh
  /\ cvLoaded = FALSE
  /\ liveMats = {}
  /\ inbox = [w \in Workers \cup {DetWorker} |-> <<>>]
  /\ calls = [c \in Calls |-> NoCall]

CacheNext ==
  \E k \in Checks :
    \/ CheckStart(k)
    \/ CheckOpenDone(k)
    \/ CheckTransaction(k)
    \/ CheckGetSuccess(k)
    \/ CheckGetError(k)
    \/ CheckTimeout(k)

SpecCache == CacheInit /\ [][CacheNext]_vars

\* ---------------------------------------------------------- cache claims
\* C10: no call of isModelCached() rejects, in whatever order the open, get
\* and timer events arrive.
C10_CheckNeverRejects ==
  \A k \in Checks : checks[k].outcome # "rejected"


\* ----------------------------------------------------- the model download
\* The bodies the server may answer with, and the bytes of a record that was
\* stored by an earlier session.
Bodies == {<<1>>, <<1, 2>>, <<3, 4, 5>>}
SeedBytes == <<9>>

\* downloadModel(), line 249: Math.round((loaded / total) * 100), which is
\* the exact quotient rounded half up for the lengths used here.
PercentageTruncated(loaded, total) == (100 * loaded) \div total
Percentage(loaded, total) == (200 * loaded + total) \div (2 * total)

\* downloadModel(), lines 274-287: the catch block.
DownloadFails(dl) ==
  [dl EXCEPT !.pc = "done", !.outcome = "rejected", !.body = <<>>, !.loaded = <<>>]

\* downloadModel(), lines 209-219: the cache gave nothing and fetch() is awaited.
DownloadFetches(dl) == [dl EXCEPT !.pc = "fetch", !.fetches = @ + 1]

\* downloadModel(), lines 186-196, getCachedModel(), lines 110-112, and
\* initDB(), lines 24-37: the call starts, one call at a time; with this.db
\* set initDB() returns it, else it opens the database.
DlStart(k) ==
  /\ downloads[k].pc = "idle"
  /\ IF k = 1 THEN TRUE ELSE downloads[k - 1].pc = "done"
  /\ \E url \in Urls :
       downloads' = [downloads EXCEPT ![k] =
         [NoDownload EXCEPT !.url = url, !.outcome = "pending",
                            !.pc = IF db THEN "cached_tx" ELSE "cached_open"]]
  /\ UNCHANGED <<records, db, stored, checks, toolVars, pageVars, client, asset, detect, workerVars>>

\* initDB(), lines 39-50, and getCachedModel(), lines 139-142: the database
\* opens, or it does not and getCachedModel() returns null.
DlCacheOpenDone(k) ==
  /\ downloads[k].pc = "cached_open"
  /\ \E ok \in BOOLEAN :
       IF ok
         THEN /\ db' = TRUE
              /\ downloads' = [downloads EXCEPT ![k].pc = "cached_tx"]
         ELSE /\ UNCHANGED db
              /\ downloads' = [downloads EXCEPT ![k] = DownloadFetches(@)]
  /\ UNCHANGED <<records, stored, checks, toolVars, pageVars, client, asset, detect, workerVars>>

\* getCachedModel(), lines 114-117: the promise is returned without being
\* awaited; db.transaction() throws in its executor and downloadModel()
\* catches the rejection, or the get request is made.
DlCacheTransaction(k) ==
  /\ downloads[k].pc = "cached_tx"
  /\ \E throws \in BOOLEAN :
       downloads' = [downloads EXCEPT ![k] =
         IF throws THEN DownloadFails(@) ELSE [@ EXCEPT !.pc = "cached_get"]]
  /\ UNCHANGED <<records, db, stored, checks, toolVars, pageVars, client, asset, detect, workerVars>>

\* getCachedModel(), lines 119-137, and downloadModel(), lines 196-219: the
\* get request fails (the call rejects), finds the record (its bytes are
\* returned after one progress report of 100) or finds none (fetch).
DlCacheGetDone(k) ==
  /\ downloads[k].pc = "cached_get"
  /\ \E ok \in BOOLEAN :
       downloads' = [downloads EXCEPT ![k] =
         IF ~ok THEN DownloadFails(@)
         ELSE IF downloads[k].url \in stored
           THEN [@ EXCEPT !.pc = "done", !.outcome = "resolved", !.hit = TRUE,
                          !.progress = <<100>>, !.result = records[downloads[k].url]]
         ELSE DownloadFetches(@)]
  /\ UNCHANGED <<records, db, stored, checks, toolVars, pageVars, client, asset, detect, workerVars>>

\* downloadModel(), lines 209-233: fetch() settles; a network error, a status
\* that is not ok and a missing body all end in the catch block; otherwise the
\* response has a body and maybe a content-length.
DlFetchDone(k) ==
  /\ downloads[k].pc = "fetch"
  /\ \/ downloads' = [downloads EXCEPT ![k] = DownloadFails(@)]
     \/ \E body \in Bodies : \E total \in {0, Len(body)} :
          downloads' = [downloads EXCEPT ![k] =
            [@ EXCEPT !.pc = "read", !.body = body, !.total = total]]
  /\ UNCHANGED <<records, db, stored, checks, toolVars, pageVars, client, asset, detect, workerVars>>

\* downloadModel(), lines 239-252: reader.read() gives a chunk (or fails);
\* progress is reported when a content-length was given.
DlReadChunk(k) ==
  /\ downloads[k].pc = "read"
  /\ downloads[k].body # <<>>
  /\ \/ downloads' = [downloads EXCEPT ![k] = DownloadFails(@)]
     \/ \E n \in 1..Len(downloads[k].body) :
          LET loaded == downloads[k].loaded \o SubSeq(downloads[k].body, 1, n)
          IN downloads' = [downloads EXCEPT ![k] =
               [@ EXCEPT !.loaded = loaded,
                         !.body = SubSeq(@, n + 1, Len(@)),
                         !.progress = IF downloads[k].total > 0
                                        THEN Append(@, Percentage(Len(loaded), downloads[k].total))
                                        ELSE @]]
  /\ UNCHANGED <<records, db, stored, checks, toolVars, pageVars, client, asset, detect, workerVars>>

\* downloadModel(), lines 242-266, cacheModel(), lines 148-150: the stream is
\* done, the chunks are joined and cacheModel() calls initDB().
DlReadDone(k) ==
  /\ downloads[k].pc = "read"
  /\ downloads[k].body = <<>>
  /\ downloads' = [downloads EXCEPT ![k].pc = IF db THEN "store_tx" ELSE "store_open"]
  /\ UNCHANGED <<records, db, stored, checks, toolVars, pageVars, client, asset, detect, workerVars>>

\* initDB(), lines 39-50, and cacheModel(), lines 176-179: the database opens,
\* or cacheModel() rethrows.
DlStoreOpenDone(k) ==
  /\ downloads[k].pc = "store_open"
  /\ \E ok \in BOOLEAN :
       IF ok
         THEN /\ db' = TRUE
              /\ downloads' = [downloads EXCEPT ![k].pc = "store_tx"]
         ELSE /\ UNCHANGED db
              /\ downloads' = [downloads EXCEPT ![k] = DownloadFails(@)]
  /\ UNCHANGED <<records, stored, checks, toolVars, pageVars, client, asset, detect, workerVars>>

\* cacheModel(), lines 152-162: db.transaction() throws, or the put request
\* is made.
DlStoreTransaction(k) ==
  /\ downloads[k].pc = "store_tx"
  /\ \E throws \in BOOLEAN :
       downloads' = [downloads EXCEPT ![k] =
         IF throws THEN DownloadFails(@) ELSE [@ EXCEPT !.pc = "store_put"]]
  /\ UNCHANGED <<records, db, stored, checks, toolVars, pageVars, client, asset, detect, workerVars>>

\* cacheModel(), lines 164-175, and downloadModel(), lines 266-273: the put
\* request succeeds (the record is written and the bytes are returned) or
\* fails (the call rejects).
DlStorePutDone(k) ==
  /\ downloads[k].pc = "store_put"
  /\ \E ok \in BOOLEAN :
       IF ok
         THEN /\ stored' = stored \cup {downloads[k].url}
              /\ records' = [records EXCEPT ![downloads[k].url] = downloads[k].loaded]
              /\ downloads' = [downloads EXCEPT ![k] =
                   [@ EXCEPT !.pc = "done", !.outcome = "resolved",
                             !.result = downloads[k].loaded, !.loaded = <<>>]]
         ELSE /\ UNCHANGED <<stored, records>>
              /\ downloads' = [downloads EXCEPT ![k] = DownloadFails(@)]
  /\ UNCHANGED <<db, checks, toolVars, pageVars, client, asset, detect, workerVars>>

DownloadInit ==
  /\ client = 1
  /\ asset = DefaultAsset
  /\ detect = NotDetecting
  /\ PageFresh
  /\ db = FALSE
  /\ stored \in SUBSET Urls
  /\ records = [u \in Urls |-> IF u \in stored THEN SeedBytes ELSE <<>>]
  /\ checks = [k \in Checks |-> NoCheck]
  /\ downloads = [k \in Downloads |-> NoDownload]
  /\ ToolFresh
  /\ useWebgpu = FALSE
  /\ aiLife = [w \in Workers |-> "unborn"]
  /\ ai = [w \in Workers |-> AiFresh]
  /\ det = DetFresh
  /\ cvLoaded = FALSE
  /\ liveMats = {}
  /\ inbox = [w \in Workers \cup {DetWorker} |-> <<>>]
  /\ calls = [c \in Calls |-> NoCall]

DownloadNext ==
  \E k \in Downloads :
    \/ DlStart(k)
    \/ DlCacheOpenDone(k)
    \/ DlCacheTransaction(k)
    \/ DlCacheGetDone(k)
    \/ DlFetchDone(k)
    \/ DlReadChunk(k)
    \/ DlReadDone(k)
    \/ DlStoreOpenDone(k)
    \/ DlStoreTransaction(k)
    \/ DlStorePutDone(k)

SpecDownload == DownloadInit /\ [][DownloadNext]_vars


\* ------------------------------------------------------------ file intake
\* lib/constants.ts, lines 1-12.  MAX_FILE_SIZE is 20 * 1024 * 1024 bytes.
MAX_FILE_SIZE == 20971520
SUPPORTED_FORMATS == {"image/jpeg", "image/png", "image/webp", "image/heic", "image/heif"}

\* The files handed in: supported and unsupported types the browser may be
\* able to decode, with sizes around the limit.
FileTypes == {"image/jpeg", "image/heif", "image/gif"}
FileSizes == {1, MAX_FILE_SIZE, MAX_FILE_SIZE + 1}
Files == [type : FileTypes, size : FileSizes]

\* validateFile(), lines 18-38.
ValidateFile(file) ==
  IF file.type \notin SUPPORTED_FORMATS THEN "Unsupported file type"
  ELSE IF file.size > MAX_FILE_SIZE THEN "File too large"
  ELSE "valid"

UploadRejects(u, error) ==
  [u EXCEPT !.pc = "done", !.outcome = "rejected", !.error = error]

Entries == {"inpaintImage", "inpaintBadge"}

\* processImageFile(), lines 161-182: the file is validated; an invalid file
\* throws ValidationError; for a valid one an id is generated and
\* getImageDimensions() and generateThumbnail() are started.
ProcessImageFileCall(d) ==
  /\ uploads[d].pc = "idle"
  /\ IF d = 1 THEN TRUE ELSE uploads[d - 1].pc = "done"
  /\ \E file \in Files :
       uploads' = [uploads EXCEPT ![d] =
         IF ValidateFile(file) # "valid"
           THEN UploadRejects([NoUpload EXCEPT !.file = file, !.entry = "processImageFile"],
                              "ValidationError")
           ELSE [NoUpload EXCEPT !.file = file, !.entry = "processImageFile",
                                 !.pc = "loading", !.id = TRUE,
                                 !.dimensions = "pending", !.thumbnail = "pending",
                                 !.outcome = "pending"]]
  /\ UNCHANGED <<probe, records, downloads, cacheVars, pageVars, client, asset, detect, workerVars>>

\* getImageDimensions(), lines 63-83, and processImageFile(), lines 179-198:
\* the image loads or fails to; Promise.all rejects on the first failure and
\* resolves once both promises have.
GetImageDimensionsDone(d) ==
  /\ uploads[d].entry = "processImageFile"
  /\ uploads[d].dimensions = "pending"
  /\ \E ok \in BOOLEAN :
       uploads' = [uploads EXCEPT ![d] =
         IF ok
           THEN IF @.thumbnail = "done" /\ @.outcome = "pending"
                  THEN [@ EXCEPT !.dimensions = "done", !.pc = "done", !.outcome = "resolved"]
                  ELSE [@ EXCEPT !.dimensions = "done"]
           ELSE IF @.outcome = "pending"
                  THEN UploadRejects([@ EXCEPT !.dimensions = "failed"], "ValidationError")
                  ELSE [@ EXCEPT !.dimensions = "failed"]]
  /\ UNCHANGED <<probe, records, downloads, cacheVars, pageVars, client, asset, detect, workerVars>>

\* generateThumbnail(), lines 91-156, and processImageFile(), lines 179-198.
GenerateThumbnailDone(d) ==
  /\ uploads[d].entry = "processImageFile"
  /\ uploads[d].thumbnail = "pending"
  /\ \E ok \in BOOLEAN :
       uploads' = [uploads EXCEPT ![d] =
         IF ok
           THEN IF @.dimensions = "done" /\ @.outcome = "pending"
                  THEN [@ EXCEPT !.thumbnail = "done", !.pc = "done", !.outcome = "resolved"]
                  ELSE [@ EXCEPT !.thumbnail = "done"]
           ELSE IF @.outcome = "pending"
                  THEN UploadRejects([@ EXCEPT !.thumbnail = "failed"], "Error")
                  ELSE [@ EXCEPT !.thumbnail = "failed"]]
  /\ UNCHANGED <<probe, records, downloads, cacheVars, pageVars, client, asset, detect, workerVars>>

\* inpaintImage(), lines 329-334, and inpaintBadge(), lines 109-117: the
\* entry point is called with a file and awaits createImageBitmap().
InpaintEntryCall(d) ==
  /\ uploads[d].pc = "idle"
  /\ IF d = 1 THEN TRUE ELSE uploads[d - 1].pc = "done"
  /\ \E file \in Files, entry \in Entries :
       uploads' = [uploads EXCEPT ![d] =
         [NoUpload EXCEPT !.file = file, !.entry = entry, !.pc = "bitmap",
                          !.outcome = "pending"]]
  /\ UNCHANGED <<probe, records, downloads, cacheVars, pageVars, client, asset, detect, workerVars>>

\* inpaintImage(), lines 334-346, and inpaintBadge(), lines 117-129: the
\* browser has decoded the file (or not); the pixels are read and
\* ensureAIWorker() is awaited, which creates and initializes the worker.
InpaintEntryBitmapDone(d) ==
  /\ uploads[d].entry \in Entries
  /\ uploads[d].pc = "bitmap"
  /\ \E ok \in BOOLEAN :
       uploads' = [uploads EXCEPT ![d] =
         IF ok THEN [@ EXCEPT !.pc = "worker", !.worker = TRUE]
               ELSE UploadRejects(@, "Error")]
  /\ UNCHANGED <<probe, records, downloads, cacheVars, pageVars, client, asset, detect, workerVars>>

\* inpaintImage(), lines 346-353, and inpaintBadge(), lines 129-136: the
\* worker is ready (or ensureAIWorker() threw); the mask is built and
\* aiApi.inpaint() is awaited.
InpaintEntryWorkerReady(d) ==
  /\ uploads[d].entry \in Entries
  /\ uploads[d].pc = "worker"
  /\ \E ok \in BOOLEAN :
       uploads' = [uploads EXCEPT ![d] =
         IF ok THEN [@ EXCEPT !.pc = "inpaint", !.mask = TRUE, !.inference = TRUE]
               ELSE UploadRejects(@, "Error")]
  /\ UNCHANGED <<probe, records, downloads, cacheVars, pageVars, client, asset, detect, workerVars>>

\* inpaintImage(), lines 353-368, and inpaintBadge(), lines 136-154:
\* inpaint() has settled and the result is encoded into a blob.
InpaintEntryInpaintDone(d) ==
  /\ uploads[d].entry \in Entries
  /\ uploads[d].pc = "inpaint"
  /\ \E ok \in BOOLEAN :
       uploads' = [uploads EXCEPT ![d] =
         IF ok THEN [@ EXCEPT !.pc = "done", !.outcome = "resolved"]
               ELSE UploadRejects(@, "Error")]
  /\ UNCHANGED <<probe, records, downloads, cacheVars, pageVars, client, asset, detect, workerVars>>

UploadInit ==
  /\ client = 1
  /\ asset = DefaultAsset
  /\ detect = NotDetecting
  /\ PageFresh
  /\ CacheFresh
  /\ LibFresh
  /\ useWebgpu = FALSE
  /\ aiLife = [w \in Workers |-> "unborn"]
  /\ ai = [w \in Workers |-> AiFresh]
  /\ det = DetFresh
  /\ cvLoaded = FALSE
  /\ liveMats = {}
  /\ inbox = [w \in Workers \cup {DetWorker} |-> <<>>]
  /\ calls = [c \in Calls |-> NoCall]

UploadNext ==
  \E d \in Drops :
    \/ ProcessImageFileCall(d)
    \/ GetImageDimensionsDone(d)
    \/ GenerateThumbnailDone(d)
    \/ InpaintEntryCall(d)
    \/ InpaintEntryBitmapDone(d)
    \/ InpaintEntryWorkerReady(d)
    \/ InpaintEntryInpaintDone(d)

SpecUpload == UploadInit /\ [][UploadNext]_vars

\* ------------------------------------------------------------ intake claims
\* C12: a file of unsupported type or larger than the limit is rejected
\* before any stage runs: processImageFile() throws ValidationError without
\* generating an id or loading the image, and the inpainting entry points
\* start no worker, build no mask and run no inference for it; a supported
\* file of exactly the limit size is not rejected by the validation.
C12_InvalidFileRejectedFirst ==
  \A d \in Drops :
    uploads[d].entry # "none" =>
      IF ValidateFile(uploads[d].file) # "valid"
        THEN /\ ~uploads[d].id
             /\ uploads[d].dimensions = "none" /\ uploads[d].thumbnail = "none"
             /\ ~uploads[d].worker /\ ~uploads[d].mask /\ ~uploads[d].inference
             /\ uploads[d].entry = "processImageFile" =>
                  uploads[d].outcome = "rejected" /\ uploads[d].error = "ValidationError"
        ELSE uploads[d].entry = "processImageFile" => uploads[d].id

\* The part of C12 about processImageFile() alone.
C12_ProcessImageFileValidatesFirst ==
  \A d \in Drops :
    uploads[d].entry = "processImageFile" =>
      IF uploads[d].file.type \in SUPPORTED_FORMATS /\ uploads[d].file.size <= MAX_FILE_SIZE
        THEN uploads[d].id
        ELSE /\ uploads[d].outcome = "rejected" /\ uploads[d].error = "ValidationError"
             /\ ~uploads[d].id
             /\ uploads[d].dimensions = "none" /\ uploads[d].thumbnail = "none"

\* ------------------------------------------------- library functions alone
\* The program at rest, for the specifications that call one function of the
\* worker or of the service on arguments of their own.
ProbeIdle ==
  /\ client = 1
  /\ asset = DefaultAsset
  /\ detect = NotDetecting
  /\ PageFresh
  /\ CacheFresh
  /\ records = [u \in Urls |-> <<>>]
  /\ downloads = [k \in Downloads |-> NoDownload]
  /\ uploads = [d \in Drops |-> NoUpload]
  /\ useWebgpu = FALSE
  /\ aiLife = [w \in Workers |-> "unborn"]
  /\ ai = [w \in Workers |-> AiFresh]
  /\ det = DetFresh
  /\ cvLoaded = FALSE
  /\ liveMats = {}
  /\ inbox = [w \in Workers \cup {DetWorker} |-> <<>>]
  /\ calls = [c \in Calls |-> NoCall]

\* ------------------------------------------------------------- compositing
\* The rectangles that lie inside a w x h image.
Rects(w, h) ==
  {b \in [x : 0..(w - 1), y : 0..(h - 1), width : 1..w, height : 1..h] :
     b.x + b.width <= w /\ b.y + b.height <= h}

CompositeSizes == {<<3, 2>>, <<4, 4>>}
PatchKinds == {"own", "grey", "white"}
MaskKinds == {"zero", "half", "full", "ramp"}

\* The patch compositePatchToImage() is given: the image's own pixels in the
\* rectangle, or an engine output of the rectangle's size.
PatchOf(image, b, kind) ==
  MakeImage(b.width, b.height,
    [p \in Grid(b.width, b.height) |->
       IF kind = "own" THEN [ch \in 1..4 |-> Channel(image, b.x + p[1], b.y + p[2], ch - 1)]
       ELSE IF kind = "grey" THEN <<128, 128, 128, 255>>
       ELSE <<255, 255, 255, 255>>])

\* The feathered patch mask it is given.
PatchMaskOf(b, kind) ==
  MakeImage(b.width, b.height,
    [p \in Grid(b.width, b.height) |->
       LET v == IF kind = "zero" THEN 0
                ELSE IF kind = "half" THEN 128
                ELSE IF kind = "full" THEN 255
                ELSE (p[1] * 85 + p[2] * 60) % 256
       IN <<v, v, v, 255>>])

CompositeCalls ==
  UNION {{[op |-> "compositePatchToImage", pc |-> "called", kind |-> kind,
           originalImage |-> image, inpaintedPatch |-> PatchOf(image, b, kind),
           patchMask |-> PatchMaskOf(b, m), offsetX |-> b.x, offsetY |-> b.y,
           result |-> NoImage] :
            image \in Images(size[1], size[2]), b \in Rects(size[1], size[2]),
            kind \in PatchKinds, m \in MaskKinds} : size \in CompositeSizes}

\* compositePatchToImage(), lines 492-554, returns.
CompositeReturn ==
  /\ probe.op = "compositePatchToImage"
  /\ probe.pc = "called"
  /\ probe' = [probe EXCEPT !.pc = "returned",
                            !.result = CompositePatchToImage(probe.originalImage,
                                         probe.inpaintedPatch, probe.patchMask,
                                         probe.offsetX, probe.offsetY)]
  /\ UNCHANGED restVars

CompositeInit == ProbeIdle /\ probe \in CompositeCalls

CompositeNext == CompositeReturn

SpecComposite == CompositeInit /\ [][CompositeNext]_vars

\* ------------------------------------------------------ compositing claims
Composited == probe.op = "compositePatchToImage" /\ probe.pc = "returned"

InPatchRect(x, y) ==
  /\ probe.offsetX <= x /\ x < probe.offsetX + probe.inpaintedPatch.width
  /\ probe.offsetY <= y /\ y < probe.offsetY + probe.inpaintedPatch.height

\* C13: every pixel of the image compositePatchToImage() returns has alpha
\* 255, also where the input pixel is not opaque and lies outside the patch.
C13_OutputOpaque ==
  Composited =>
    \A p \in Grid(probe.result.width, probe.result.height) :
      Channel(probe.result, p[1], p[2], 3) = 255

\* C14 as stated: compositing the original's own pixels yields the original,
\* in every channel of every pixel, whatever the mask.
C14_OwnPatchIsIdentity ==
  (Composited /\ probe.kind = "own") => probe.result = probe.originalImage

\* C14, amended: compositing the original's own pixels yields an image of the
\* original's size with the original's R, G and B in every pixel, whatever the
\* mask; alpha is 255 inside the patch rectangle and the original's outside.
C14_OwnPatchKeepsColour ==
  (Composited /\ probe.kind = "own") =>
    /\ probe.result.width = probe.originalImage.width
    /\ probe.result.height = probe.originalImage.height
    /\ \A p \in Grid(probe.result.width, probe.result.height) :
         /\ \A ch \in 0..2 :
              Channel(probe.result, p[1], p[2], ch) =
                Channel(probe.originalImage, p[1], p[2], ch)
         /\ Channel(probe.result, p[1], p[2], 3) =
              IF InPatchRect(p[1], p[2]) THEN 255
              ELSE Channel(probe.originalImage, p[1], p[2], 3)

\* The original's own pixels were composited under a mask that is neither 0
\* nor 255 everywhere, over a pixel that is not opaque and next to pixels
\* outside the patch.
C14_Witness ==
  /\ Composited /\ probe.kind = "own"
  /\ \E p \in Grid(probe.patchMask.width, probe.patchMask.height) :
       Channel(probe.patchMask, p[1], p[2], 0) \notin {0, 255}
  /\ \E p \in Grid(probe.result.width, probe.result.height) :
       InPatchRect(p[1], p[2]) /\ Channel(probe.originalImage, p[1], p[2], 3) < 255
  /\ \E p \in Grid(probe.result.width, probe.result.height) :
       ~InPatchRect(p[1], p[2]) /\ Channel(probe.originalImage, p[1], p[2], 0) > 0

\* -------------------------------------------------------- patch extraction
ExtractSizes == {<<1, 1>>, <<3, 2>>, <<4, 4>>}
ExtractPaddings == {1, 2, PATCH_PADDING}

\* Opaque images, which a canvas gives back as they were put.
OpaqueImages(w, h) ==
  {MakeImage(w, h, [p \in Grid(w, h) |->
                      [ch \in 1..4 |->
                         IF ch = 4 THEN 255
                         ELSE Palette[((p[1] + 2 * p[2] + shift) % Len(Palette)) + 1][ch]]]) :
     shift \in 0..(Len(Palette) - 1)}

\* Masks with a pixel above the threshold of 128: a white pixel with a ring
\* around it, or a pixel of 129 on a ground of 128.
WhiteMasks(w, h) ==
  {MakeImage(w, h, [p \in Grid(w, h) |->
     LET v == IF p = c THEN 255
              ELSE IF p[1] - c[1] \in {0 - 1, 0, 1} /\ p[2] - c[2] \in {0 - 1, 0, 1} THEN ring
              ELSE 0
     IN <<v, v, v, 255>>]) :
     c \in Grid(w, h), ring \in RingValues} \cup
  {MakeImage(w, h, [p \in Grid(w, h) |->
     LET v == IF p = c THEN 129 ELSE 128 IN <<v, v, v, 255>>]) :
     c \in Grid(w, h)}

\* An image wide enough for PATCH_PADDING pixels on both sides of a mask pixel,
\* with one white pixel at its left edge, in its middle or at its right edge.
WideSize == <<2 * PATCH_PADDING + 1, 1>>
WideMasks ==
  {MakeImage(WideSize[1], WideSize[2],
             [p \in Grid(WideSize[1], WideSize[2]) |->
                LET v == IF p[1] = at THEN 255 ELSE 0 IN <<v, v, v, 255>>]) :
     at \in {0, PATCH_PADDING, 2 * PATCH_PADDING}}

ExtractCalls ==
  UNION {{[op |-> "extractWatermarkPatch", pc |-> "called", imageData |-> image,
           maskData |-> mask, padding |-> padding, patchImage |-> NoImage,
           patchMask |-> NoImage, offsetX |-> 0, offsetY |-> 0] :
            image \in OpaqueImages(size[1], size[2]), mask \in WhiteMasks(size[1], size[2]),
            padding \in ExtractPaddings} : size \in ExtractSizes} \cup
  {[op |-> "extractWatermarkPatch", pc |-> "called", imageData |-> image,
    maskData |-> mask, padding |-> PATCH_PADDING, patchImage |-> NoImage,
    patchMask |-> NoImage, offsetX |-> 0, offsetY |-> 0] :
     image \in OpaqueImages(WideSize[1], WideSize[2]), mask \in WideMasks}

\* extractWatermarkPatch(), lines 229-331, returns.
ExtractReturn ==
  /\ probe.op = "extractWatermarkPatch"
  /\ probe.pc = "called"
  /\ LET b == PatchBounds(probe.imageData, probe.maskData, probe.padding)
     IN probe' = [probe EXCEPT !.pc = "returned",
                               !.patchImage = PatchMask(probe.imageData, b),
                               !.patchMask = PatchMask(probe.maskData, b),
                               !.offsetX = b.x, !.offsetY = b.y]
  /\ UNCHANGED restVars

ExtractInit == ProbeIdle /\ probe \in ExtractCalls

ExtractNext == ExtractReturn

SpecExtract == ExtractInit /\ [][ExtractNext]_vars

\* ------------------------------------------------- patch extraction claims
Extracted == probe.op = "extractWatermarkPatch" /\ probe.pc = "returned"

\* C15: for a mask with a pixel whose red is above 128 and a positive padding,
\* extractWatermarkPatch() returns a patch rectangle inside the image, of at
\* least one pixel, and a patch image and a patch mask of its dimensions.
C15_PatchInsideImage ==
  Extracted =>
    /\ probe.offsetX >= 0 /\ probe.offsetY >= 0
    /\ probe.patchImage.width >= 1 /\ probe.patchImage.height >= 1
    /\ probe.offsetX + probe.patchImage.width <= probe.imageData.width
    /\ probe.offsetY + probe.patchImage.height <= probe.imageData.height
    /\ probe.patchMask.width = probe.patchImage.width
    /\ probe.patchMask.height = probe.patchImage.height
    /\ Len(probe.patchImage.data) = probe.patchImage.width * probe.patchImage.height * 4
    /\ Len(probe.patchMask.data) = Len(probe.patchImage.data)

\* A patch that starts inside the image and is cut off at its right and
\* bottom edges.
C15_Witness ==
  /\ Extracted
  /\ probe.offsetX > 0 /\ probe.offsetY > 0
  /\ probe.offsetX + probe.patchImage.width = probe.imageData.width
  /\ probe.offsetY + probe.patchImage.height = probe.imageData.height
  /\ probe.patchImage.width < 2 * probe.padding

\* The mask pixels above the binarization threshold, found as the claim
\* states them and not as the loop of extractWatermarkPatch() does.
AboveThreshold ==
  {xy \in Grid(probe.maskData.width, probe.maskData.height) :
     Channel(probe.maskData, xy[1], xy[2], 0) > 128}

\* C21: the rectangle extractWatermarkPatch() crops is the tight bounding box
\* of the mask pixels whose red channel is above 128, grown by the padding on
\* each of its four sides and cut to the image.
C21_PatchIsPaddedBoundingBox ==
  Extracted =>
    LET left == MinOf({xy[1] : xy \in AboveThreshold}) - probe.padding
        top == MinOf({xy[2] : xy \in AboveThreshold}) - probe.padding
        right == MaxOf({xy[1] : xy \in AboveThreshold}) + probe.padding
        bottom == MaxOf({xy[2] : xy \in AboveThreshold}) + probe.padding
    IN /\ probe.offsetX = MaxOf({0, left})
       /\ probe.offsetY = MaxOf({0, top})
       /\ probe.offsetX + probe.patchImage.width - 1 =
            MinOf({probe.imageData.width - 1, right})
       /\ probe.offsetY + probe.patchImage.height - 1 =
            MinOf({probe.imageData.height - 1, bottom})

\* C21, the part of it that holds: the patch contains every mask pixel above
\* the threshold.
C21_PatchContainsMaskPixels ==
  Extracted =>
    \A xy \in AboveThreshold :
      /\ probe.offsetX <= xy[1] /\ xy[1] < probe.offsetX + probe.patchImage.width
      /\ probe.offsetY <= xy[2] /\ xy[2] < probe.offsetY + probe.patchImage.height

\* ------------------------------------------------------------ mask builder
\* lib/constants.ts, lines 60 and 64.
MASK_DILATION == 10
MASK_FEATHER_RADIUS == 40

\* createGaussianKernel(MASK_FEATHER_RADIUS), lines 287-302: the weights
\* exp(-x^2 / (2 sigma^2)), sigma = radius / 3, x = -radius..radius, in units
\* of 1/10000; the blur divides by their sum, so their normalisation cancels.
GaussianKernel ==
  <<111, 139, 172, 213, 261, 319, 387, 468, 561, 670, 796, 939, 1103, 1287, 1494,
    1724, 1979, 2259, 2563, 2893, 3247, 3623, 4020, 4436, 4868, 5311, 5762, 6217,
    6670, 7115, 7548, 7963, 8353, 8713, 9037, 9321, 9560, 9750, 9888, 9972, 10000,
    9972, 9888, 9750, 9560, 9321, 9037, 8713, 8353, 7963, 7548, 7115, 6670, 6217,
    5762, 5311, 4868, 4436, 4020, 3623, 3247, 2893, 2563, 2259, 1979, 1724, 1494,
    1287, 1103, 939, 796, 670, 561, 468, 387, 319, 261, 213, 172, 139, 111>>

\* createGaussianKernel(radius), lines 287-302, for the radii of the blur's
\* own checks: 2 * radius + 1 weights exp(-4.5 (x / radius)^2) in the same
\* units.
CreateGaussianKernel(radius) ==
  CASE radius = 1 -> <<111, 10000, 111>>
    [] radius = 2 -> <<111, 3247, 10000, 3247, 111>>
    [] radius = 3 -> <<111, 1353, 6065, 10000, 6065, 1353, 111>>
    [] radius = MASK_FEATHER_RADIUS -> GaussianKernel

\* weightSum, lines 245 and 267: the sum of the weights lo..hi.
RECURSIVE KernelSum(_, _, _)
KernelSum(kernel, lo, hi) ==
  IF lo = hi THEN kernel[lo]
  ELSE KernelSum(kernel, lo, (lo + hi) \div 2) + KernelSum(kernel, (lo + hi) \div 2 + 1, hi)

\* Math.min(Math.max(v, 0), size - 1), lines 242 and 264.
ClampIndex(v, size) == IF v < 0 THEN 0 ELSE IF v > size - 1 THEN size - 1 ELSE v

\* The taps of a blur that pads with zeros: a tap outside the line adds
\* nothing to the sum.
RECURSIVE TapsZeroPadded(_, _, _, _, _, _)
TapsZeroPadded(line, size, at, kernel, lo, hi) ==
  IF lo = hi
    THEN LET v == at + (lo - 1) - (Len(kernel) \div 2)
         IN IF v < 0 \/ v > size - 1 THEN 0 ELSE kernel[lo] * line[v]
    ELSE TapsZeroPadded(line, size, at, kernel, lo, (lo + hi) \div 2) +
         TapsZeroPadded(line, size, at, kernel, (lo + hi) \div 2 + 1, hi)

\* applyGaussianBlur(), lines 241-247 and 263-269: the weighted sum of the
\* taps lo..hi around position at of a line of the given size, whose values
\* are line[0], ..., line[size - 1].
RECURSIVE Taps(_, _, _, _, _, _)
Taps(line, size, at, kernel, lo, hi) ==
  IF lo = hi
    THEN kernel[lo] * line[ClampIndex(at + (lo - 1) - (Len(kernel) \div 2), size)]
    ELSE Taps(line, size, at, kernel, lo, (lo + hi) \div 2) +
         Taps(line, size, at, kernel, (lo + hi) \div 2 + 1, hi)

\* The function f with every value worked out.
Stored(f) == f @@ <<>>

\* Math.round(sum / weightSum), lines 250 and 272.
BlurValue(sum, weightSum) == (2 * sum + weightSum) \div (2 * weightSum)

\* applyGaussianBlur() that writes the red channel only, into the cleared
\* output.
BlurRedOnly(imageData, kernel) ==
  LET width == imageData.width
      height == imageData.height
      weightSum == KernelSum(kernel, 1, Len(kernel))
      rows == Stored([y \in 0..(height - 1) |->
                Stored([x \in 0..(width - 1) |-> Channel(imageData, x, y, 0)])])
      temp == Stored([y \in 0..(height - 1) |->
                Stored([x \in 0..(width - 1) |->
                  BlurValue(Taps(rows[y], width, x, kernel, 1, Len(kernel)), weightSum)])])
      columns == Stored([x \in 0..(width - 1) |->
                   Stored([y \in 0..(height - 1) |-> temp[y][x]])])
  IN MakeImage(width, height,
       Stored([p \in Grid(width, height) |->
          <<BlurValue(Taps(columns[p[1]], height, p[2], kernel, 1, Len(kernel)), weightSum),
            0, 0, 0>>]))

\* applyGaussianBlur(), lines 225-282: a horizontal pass over the red channel
\* into temp, then a vertical pass over temp; both clamp at the borders.
ApplyGaussianBlur(imageData, kernel) ==
  LET width == imageData.width
      height == imageData.height
      weightSum == KernelSum(kernel, 1, Len(kernel))
      rows == Stored([y \in 0..(height - 1) |->
                Stored([x \in 0..(width - 1) |-> Channel(imageData, x, y, 0)])])
      temp == Stored([y \in 0..(height - 1) |->
                Stored([x \in 0..(width - 1) |->
                  BlurValue(Taps(rows[y], width, x, kernel, 1, Len(kernel)), weightSum)])])
      columns == Stored([x \in 0..(width - 1) |->
                   Stored([y \in 0..(height - 1) |-> temp[y][x]])])
  IN MakeImage(width, height,
       Stored([p \in Grid(width, height) |->
          LET value == BlurValue(Taps(columns[p[1]], height, p[2], kernel, 1, Len(kernel)),
                                 weightSum)
          IN <<value, value, value, 255>>]))

\* fillRect(x, y, w, h) in white on a black canvas, lines 171-172 and 210-211:
\* a negative extent paints to the left of (above) the start.
FillRect(width, height, rect) ==
  LET x0 == IF rect.width < 0 THEN rect.x + rect.width ELSE rect.x
      x1 == IF rect.width < 0 THEN rect.x ELSE rect.x + rect.width
      y0 == IF rect.height < 0 THEN rect.y + rect.height ELSE rect.y
      y1 == IF rect.height < 0 THEN rect.y ELSE rect.y + rect.height
  IN MakeImage(width, height,
       [p \in Grid(width, height) |->
          IF x0 <= p[1] /\ p[1] < x1 /\ y0 <= p[2] /\ p[2] < y1
            THEN <<255, 255, 255, 255>> ELSE <<0, 0, 0, 255>>])

\* ellipse(centerX, centerY, r, r, ...) filled in white on a black canvas,
\* lines 413-424: the pixels whose centre lies in the disc (the partly
\* covered pixels of the rim are painted or not by that rule).
FillCircle(width, height, centerX, centerY, radius) ==
  MakeImage(width, height,
    [p \in Grid(width, height) |->
       IF (2 * p[1] + 1 - 2 * centerX) * (2 * p[1] + 1 - 2 * centerX) +
          (2 * p[2] + 1 - 2 * centerY) * (2 * p[2] + 1 - 2 * centerY)
            <= 4 * radius * radius
         THEN <<255, 255, 255, 255>> ELSE <<0, 0, 0, 255>>])

\* createMask(), lines 174-201: the base rectangle, from the detected
\* location or in the bottom-right corner.
BaseRect(width, height, location) ==
  IF location.has
    THEN [x |-> (width - FloorPercent(width, ROI_PERCENT)) + location.x,
          y |-> (height - FloorPercent(height, ROI_PERCENT)) + location.y,
          width |-> 100, height |-> 100]
    ELSE LET estimatedSize == FloorPercent(MinOf({width, height}), 15)
         IN [x |-> width - estimatedSize - 10, y |-> height - estimatedSize - 10,
             width |-> estimatedSize, height |-> estimatedSize]

\* createMask(), lines 203-208: the rectangle that is painted.
DilatedRect(width, height, base, dilation) ==
  LET maskX == IF base.x - dilation > 0 THEN base.x - dilation ELSE 0
      maskY == IF base.y - dilation > 0 THEN base.y - dilation ELSE 0
  IN [x |-> maskX, y |-> maskY,
      width |-> MinOf({width - maskX, base.width + dilation * 2}),
      height |-> MinOf({height - maskY, base.height + dilation * 2})]

\* createMask(), lines 160-220.
CreateMask(width, height, location) ==
  LET rect == DilatedRect(width, height, BaseRect(width, height, location), MASK_DILATION)
      painted == FillRect(width, height, rect)
  IN [painted |-> painted, mask |-> ApplyGaussianBlur(painted, GaussianKernel)]

\* createFixedPositionMask(), lines 374-431.
CreateFixedPositionMask(width, height) ==
  LET maskRadius == 80 + MASK_DILATION
      painted == FillCircle(width, height, width - 120, height - 120, maskRadius)
  IN [painted |-> painted, mask |-> ApplyGaussianBlur(painted, GaussianKernel)]

\* The source images' sizes, and the detected locations (relative to the
\* region of interest) that put the base rectangle's left or top side at 5.
MaskSizes ==
  {<<1, 1>>, <<5, 3>>, <<2, 7>>, <<12, 12>>, <<30, 4>>, <<121, 1>>, <<1, 130>>, <<125, 2>>}
FixedMaskSizes == {<<1, 1>>, <<5, 3>>, <<12, 12>>, <<20, 20>>, <<30, 4>>, <<64, 64>>}
NoLocation == [has |-> FALSE, x |-> 0, y |-> 0]
Locations(width, height) ==
  {NoLocation} \cup
  [has : {TRUE},
   x : {0, 3, 5 - (width - FloorPercent(width, ROI_PERCENT))},
   y : {0, 3, 5 - (height - FloorPercent(height, ROI_PERCENT))}]

\* The locations detectBadge() returns for an image of this size, lines
\* 187-228: the place of a match of the shipped template at a scale that
\* fits, in the first or in the last cell of the score surface, moved from
\* the ROI to the whole image.
DetectedLocations(width, height) ==
  LET roiWidth == FloorPercent(width, ROI_PERCENT)
      roiHeight == FloorPercent(height, ROI_PERCENT)
      d == [NotDetecting EXCEPT !.roiWidth = roiWidth, !.roiHeight = roiHeight,
                                !.roiX = width - roiWidth, !.roiY = height - roiHeight]
      fitting == {i \in 1..Len(SCALES) :
                    /\ ScaledSize(DefaultAsset, SCALES[i]).width <= roiWidth
                    /\ ScaledSize(DefaultAsset, SCALES[i]).height <= roiHeight}
      places(i) == {<<0, 0>>, <<roiWidth - ScaledSize(DefaultAsset, SCALES[i]).width,
                               roiHeight - ScaledSize(DefaultAsset, SCALES[i]).height>>}
  IN UNION {{LET best == UpdateBest(d, MatchAtScale(roiWidth, roiHeight, DefaultAsset, SCALES[i],
                             [throws |-> FALSE, maxVal |-> 80, maxLoc |-> place])).bestMatch
             IN [has |-> TRUE, x |-> best.x, y |-> best.y] : place \in places(i)} :
            i \in fitting}

\* Images whose ROI holds the template at its smallest scale, and at two.
DetectedSizes == {<<54, 40>>, <<80, 60>>}

MaskCalls ==
  UNION {{[op |-> "createMask", pc |-> "called", width |-> size[1], height |-> size[2],
           location |-> location, painted |-> NoImage, mask |-> NoImage] :
            location \in IF size \in DetectedSizes
                           THEN DetectedLocations(size[1], size[2])
                           ELSE Locations(size[1], size[2])} :
         size \in MaskSizes \cup DetectedSizes} \cup
  {[op |-> "createFixedPositionMask", pc |-> "called", width |-> size[1],
    height |-> size[2], location |-> NoLocation, painted |-> NoImage,
    mask |-> NoImage] : size \in FixedMaskSizes}

\* createMask(), lines 160-220, returns.
CreateMaskReturn ==
  /\ probe.op = "createMask"
  /\ probe.pc = "called"
  /\ LET made == CreateMask(probe.width, probe.height, probe.location)
     IN probe' = [probe EXCEPT !.pc = "returned", !.painted = made.painted,
                               !.mask = made.mask]
  /\ UNCHANGED restVars

\* createFixedPositionMask(), lines 374-431, returns.
CreateFixedPositionMaskReturn ==
  /\ probe.op = "createFixedPositionMask"
  /\ probe.pc = "called"
  /\ LET made == CreateFixedPositionMask(probe.width, probe.height)
     IN probe' = [probe EXCEPT !.pc = "returned", !.painted = made.painted,
                               !.mask = made.mask]
  /\ UNCHANGED restVars

MaskInit == ProbeIdle /\ probe \in MaskCalls

MaskNext == CreateMaskReturn \/ CreateFixedPositionMaskReturn

SpecMask == MaskInit /\ [][MaskNext]_vars

\* ------------------------------------------------------- the blur alone
\* Buffers of one red value, narrower and wider than the kernel, whose other
\* channels are like the red one or not, and every radius with a kernel.
BlurSizes == {<<1, 1>>, <<2, 2>>, <<5, 1>>, <<1, 5>>, <<4, 3>>, <<9, 2>>}
BlurRadii == {1, 2, 3, MASK_FEATHER_RADIUS}
FlatValues == {0, 1, 77, 128, 255}

BlurCalls ==
  {[op |-> "applyGaussianBlur", pc |-> "called", radius |-> radius,
    imageData |-> MakeImage(size[1], size[2],
                            [p \in Grid(size[1], size[2]) |->
                               IF grey THEN <<c, c, c, 255>> ELSE <<c, 255 - c, 7, 3>>]),
    output |-> NoImage] :
     size \in BlurSizes, radius \in BlurRadii, c \in FlatValues, grey \in BOOLEAN}

\* applyGaussianBlur(), lines 225-282, returns.
ApplyGaussianBlurReturn ==
  /\ probe.op = "applyGaussianBlur"
  /\ probe.pc = "called"
  /\ probe' = [probe EXCEPT !.pc = "returned",
                            !.output = ApplyGaussianBlur(probe.imageData,
                                                         CreateGaussianKernel(probe.radius))]
  /\ UNCHANGED restVars

BlurInit == ProbeIdle /\ probe \in BlurCalls

BlurNext == ApplyGaussianBlurReturn

SpecBlur == BlurInit /\ [][BlurNext]_vars

\* ----------------------------------------------------------- blur claims
Blurred == probe.op = "applyGaussianBlur" /\ probe.pc = "returned"

\* C22: applyGaussianBlur() of a buffer whose red channel is the constant c
\* returns a buffer of the same size whose red, green and blue channels are c
\* at every pixel, the border pixels included, for every radius >= 1 and for
\* buffers narrower or shorter than the kernel.  (The weights here are exact;
\* the program's doubles put sum / weightSum within 1e-12 of c, which
\* Math.round takes to c.)
C22_FlatBufferUnchanged ==
  Blurred =>
    /\ probe.output.width = probe.imageData.width
    /\ probe.output.height = probe.imageData.height
    /\ \A p \in Grid(probe.imageData.width, probe.imageData.height) :
         \A ch \in 0..2 :
           Channel(probe.output, p[1], p[2], ch) = Channel(probe.imageData, 0, 0, 0)

\* A buffer narrower and shorter than the kernel, of a value that is neither
\* black nor white, blurred with the radius the service uses.
C22_Witness ==
  /\ Blurred
  /\ probe.radius = MASK_FEATHER_RADIUS
  /\ probe.imageData.width = 4 /\ probe.imageData.height = 3
  /\ Channel(probe.imageData, 0, 0, 0) = 77
  /\ Channel(probe.imageData, 0, 0, 1) # 77
  /\ Channel(probe.output, 3, 2, 1) = 77

\* ----------------------------------------------------- mask builder claims
MaskMade ==
  probe.op \in {"createMask", "createFixedPositionMask"} /\ probe.pc = "returned"

\* C16: for every image size and both anchor modes the mask has a pixel
\* above the threshold of 128 that patch extraction looks for, so the
\* bounding box is never taken of an empty mask.
C16_MaskHasWhitePixel ==
  MaskMade =>
    \E p \in Grid(probe.width, probe.height) : Channel(probe.mask, p[1], p[2], 0) > 128

C25_DetectedMaskCoversDetection ==
  (/\ probe.op = "createMask" /\ probe.pc = "returned"
   /\ probe.location \in DetectedLocations(probe.width, probe.height)) =>
    LET rect == DilatedRect(probe.width, probe.height,
                            BaseRect(probe.width, probe.height, probe.location),
                            MASK_DILATION)
    IN /\ rect.width > 0 /\ rect.height > 0
       /\ 0 <= rect.x /\ rect.x + rect.width <= probe.width
       /\ 0 <= rect.y /\ rect.y + rect.height <= probe.height
       /\ Channel(probe.painted, probe.location.x, probe.location.y, 0) = 255

\* C18: a mask returned by createMask() or createFixedPositionMask() has the
\* source image's width and height, red values in 0..255, green and blue
\* equal to red, and alpha 255.
C18_MaskWellFormed ==
  MaskMade =>
    /\ probe.mask.width = probe.width /\ probe.mask.height = probe.height
    /\ Len(probe.mask.data) = probe.width * probe.height * 4
    /\ \A p \in Grid(probe.width, probe.height) :
         /\ Channel(probe.mask, p[1], p[2], 0) \in 0..255
         /\ Channel(probe.mask, p[1], p[2], 1) = Channel(probe.mask, p[1], p[2], 0)
         /\ Channel(probe.mask, p[1], p[2], 2) = Channel(probe.mask, p[1], p[2], 0)
         /\ Channel(probe.mask, p[1], p[2], 3) = 255

\* A fixed-position mask with white, black and feathered pixels.
C18_Witness ==
  /\ probe.op = "createFixedPositionMask" /\ probe.pc = "returned"
  /\ \E p \in Grid(probe.width, probe.height) : Channel(probe.mask, p[1], p[2], 0) > 128
  /\ \E p \in Grid(probe.width, probe.height) : Channel(probe.mask, p[1], p[2], 0) = 0
  /\ \E p \in Grid(probe.width, probe.height) :
       Channel(probe.mask, p[1], p[2], 0) \in 1..128

\* -------------------------------------------------------- output validator
\* validateInpaintingResult(), lines 563-598, in double precision: the means
\* rSum / totalPixels and the variances are exact when totalPixels is a power
\* of two, or when every mean and every variance is a whole number.
ExactArithmetic(imageData) ==
  LET totalPixels == imageData.width * imageData.height
  IN \/ totalPixels \in {1, 2, 4, 8, 16}
     \/ \A ch \in 0..2 :
          /\ SumTo(imageData, totalPixels, ch, 1) % totalPixels = 0
          /\ (totalPixels * SumTo(imageData, totalPixels, ch, 2)
                - SumTo(imageData, totalPixels, ch, 1) * SumTo(imageData, totalPixels, ch, 1))
               % (totalPixels * totalPixels) = 0

\* The variance sum is exactly MIN_OUTPUT_VARIANCE.
AtThreshold(imageData) ==
  LET totalPixels == imageData.width * imageData.height
      ScaledVariance(ch) ==
        totalPixels * SumTo(imageData, totalPixels, ch, 2)
          - SumTo(imageData, totalPixels, ch, 1) * SumTo(imageData, totalPixels, ch, 1)
  IN ScaledVariance(0) + ScaledVariance(1) + ScaledVariance(2)
       = MIN_OUTPUT_VARIANCE * totalPixels * totalPixels

\* What validateInpaintingResult(), lines 560-607, can return: rounding
\* decides the comparison of line 606 only when the exact variance sum equals
\* the threshold and the arithmetic is not exact.
ValidatorResults(imageData) ==
  IF AtThreshold(imageData) /\ ~ExactArithmetic(imageData)
    THEN BOOLEAN
    ELSE {ValidateInpaintingResult(imageData)}

\* The buffers handed to the validator: one pixel; two pixels that differ by
\* (d1, d2, 0), with variance sum (d1^2 + d2^2) / 4; three pixels with
\* variance sum 500, 502 and 0; and 2 x 2 boards.  Alpha varies
\* independently.
Alphas == {0, 255}
ValidatorPixels ==
  {<<(<<7, 7, 7, a>>)>> : a \in Alphas} \cup
  {<<(<<0, 0, 0, a[1]>>), (<<d1, d2, 0, a[2]>>)>> :
     d1 \in {0, 40, 45}, d2 \in {0, 19, 20, 21}, a \in Alphas \X Alphas} \cup
  {<<(<<14, 25, 18, a>>), (<<54, 39, 41, 255>>), (<<54, 22, 27, 255>>)>> : a \in Alphas} \cup
  {<<(<<0, 0, 0, a>>), (<<0, 0, 0, 255>>), (<<45, 15, 0, 255>>)>> : a \in Alphas} \cup
  {<<(<<0, 0, 0, a>>), (<<0, 0, 0, 255>>), (<<47, 5, 5, 255>>)>> : a \in Alphas} \cup
  {<<(<<9, 9, 9, a>>), (<<9, 9, 9, 255>>), (<<9, 9, 9, 0>>)>> : a \in Alphas} \cup
  {<<(<<v, v, v, a>>), (<<w, w, w, 255>>), (<<w, w, w, 255>>), (<<v, v, v, a>>)>> :
     v \in {0, 100}, w \in {100, 126, 255}, a \in Alphas}

ValidatorCalls ==
  {[op |-> "validateInpaintingResult", pc |-> "called",
    imageData |-> MakeImage(IF Len(px) = 4 THEN 2 ELSE Len(px), IF Len(px) = 4 THEN 2 ELSE 1,
                    [p \in Grid(IF Len(px) = 4 THEN 2 ELSE Len(px),
                                IF Len(px) = 4 THEN 2 ELSE 1) |->
                       px[p[2] * 2 + p[1] + 1]]),
    result |-> FALSE] : px \in ValidatorPixels}

\* validateInpaintingResult(), lines 560-607, returns.
ValidateReturn ==
  /\ probe.op = "validateInpaintingResult"
  /\ probe.pc = "called"
  /\ \E result \in ValidatorResults(probe.imageData) :
       probe' = [probe EXCEPT !.pc = "returned", !.result = result]
  /\ UNCHANGED restVars

ValidateInit == ProbeIdle /\ probe \in ValidatorCalls

ValidateNext == ValidateReturn

SpecValidate == ValidateInit /\ [][ValidateNext]_vars

\* ------------------------------------------------- output validator claims
Validated == probe.op = "validateInpaintingResult" /\ probe.pc = "returned"

PixelIndexes == 1..(probe.imageData.width * probe.imageData.height)

\* N^2 times the population variance of a channel, as the sum over the pairs
\* of pixels of their squared difference.
PairwiseVariance(ch) ==
  LET Value(i) == probe.imageData.data[(i - 1) * 4 + ch + 1]
      pairs == {ij \in PixelIndexes \X PixelIndexes : ij[1] < ij[2]}
      Squares[S \in SUBSET pairs] ==
        IF S = {} THEN 0
        ELSE LET ij == CHOOSE e \in S : TRUE
             IN (Value(ij[1]) - Value(ij[2])) * (Value(ij[1]) - Value(ij[2]))
                  + Squares[S \ {ij}]
  IN Squares[pairs]

ScaledVarianceSum == PairwiseVariance(0) + PairwiseVariance(1) + PairwiseVariance(2)

ScaledThreshold == MIN_OUTPUT_VARIANCE * Cardinality(PixelIndexes) * Cardinality(PixelIndexes)

Eighths == 8

\* Assignment to a Uint8ClampedArray element, lines 469-471: the value
\* num / den, which lies in [0, 255], rounded to the nearest integer, a half
\* to the even one.
ToUint8Clamped(num, den) ==
  LET q == num \div den
      r == num % den
  IN IF 2 * r > den THEN q + 1
     ELSE IF 2 * r = den THEN q + (q % 2)
     ELSE q

ClampTo(v, lo, hi) == IF v < lo THEN lo ELSE IF v > hi THEN hi ELSE v

\* normalize(), lines 429-452, of postprocessPatchOutput(), followed by the
\* clamp of lines 462-467: which mapping the global minimum and maximum select.
Regime(min, max) ==
  IF max = min THEN "solid"
  ELSE IF min >= (0 - 10) * Eighths /\ max <= 265 * Eighths /\ max - min > 100 * Eighths
    THEN "direct"
  ELSE IF 10 * min >= (0 - 1) * Eighths /\ 10 * max <= 11 * Eighths THEN "unit"
  ELSE IF 10 * min >= (0 - 11) * Eighths /\ 10 * max <= 11 * Eighths THEN "signed"
  ELSE "minmax"

Normalize(val, min, max) ==
  LET regime == Regime(min, max)
  IN IF regime = "solid" THEN 128
     ELSE IF regime = "direct"
       THEN ToUint8Clamped(ClampTo(val, 0, 255 * Eighths), Eighths)
     ELSE IF regime = "unit"
       THEN ToUint8Clamped(ClampTo(val * 255, 0, 255 * Eighths), Eighths)
     ELSE IF regime = "signed"
       THEN ToUint8Clamped(ClampTo((val + Eighths) * 255, 0, 255 * 2 * Eighths), 2 * Eighths)
     ELSE ToUint8Clamped((val - min) * 255, max - min)

\* postprocessPatchOutput(), lines 410-487, for a [1, 3, height, width]
\* tensor of the patch's own size, which resizeImageData() copies as it is.
PostprocessPatchOutput(data, width, height) ==
  LET min == MinOf({data[i] : i \in 1..Len(data)})
      max == MaxOf({data[i] : i \in 1..Len(data)})
  IN MakeImage(width, height,
       [p \in Grid(width, height) |->
          LET i == p[2] * width + p[1] + 1
          IN <<Normalize(data[i], min, max),
               Normalize(data[height * width + i], min, max),
               Normalize(data[2 * height * width + i], min, max), 255>>])

\* The engine's outputs: tensors of two pixels whose least and greatest
\* values are taken around the boundaries of the mappings.
TensorValues ==
  {(0 - 10) * Eighths, 0 - Eighths, 0 - 1, 0, 4, Eighths, Eighths + 1, 100 * Eighths,
   101 * Eighths, 150 * Eighths, 200 * Eighths, 255 * Eighths, 265 * Eighths, 300 * Eighths}

DecodeCalls ==
  {[op |-> "postprocessPatchOutput", pc |-> "called",
    data |-> <<t[1], t[2], t[2], t[1], (t[1] + t[2]) \div 2, (t[1] + t[2]) \div 2>>,
    width |-> 2, height |-> 1, result |-> NoImage] :
     t \in {v \in TensorValues \X TensorValues : v[1] <= v[2]}}

\* postprocessPatchOutput(), lines 410-487, returns.
DecodeReturn ==
  /\ probe.op = "postprocessPatchOutput"
  /\ probe.pc = "called"
  /\ probe' = [probe EXCEPT !.pc = "returned",
                            !.result = PostprocessPatchOutput(probe.data, probe.width,
                                                              probe.height)]
  /\ UNCHANGED restVars

DecodeInit == ProbeIdle /\ probe \in DecodeCalls

DecodeNext == DecodeReturn

SpecDecode == DecodeInit /\ [][DecodeNext]_vars

\* ---------------------------------------------------- output decoding claims
Decoded == probe.op = "postprocessPatchOutput" /\ probe.pc = "returned"

\* The R, G, B values written for the tensor, in the tensor's order.
Written ==
  [i \in 1..Len(probe.data) |->
     probe.result.data[((i - 1) % (probe.width * probe.height)) * 4
                         + ((i - 1) \div (probe.width * probe.height)) + 1]]

\* C20: every written channel value lies in [0, 255], and a tensor whose
\* values lie in [0, 255] and are not all within [-1.1, 1.1] is passed
\* through unchanged (each value written as the 8-bit channel holds it).
C20_RangeTensorPassedThrough ==
  Decoded =>
    /\ \A i \in 1..Len(probe.data) : Written[i] \in 0..255
    /\ (/\ \A i \in 1..Len(probe.data) :
             0 <= probe.data[i] /\ probe.data[i] <= 255 * Eighths
        /\ \E i \in 1..Len(probe.data) :
             10 * probe.data[i] < (0 - 11) * Eighths \/ 10 * probe.data[i] > 11 * Eighths) =>
         \A i \in 1..Len(probe.data) : Written[i] = ToUint8Clamped(probe.data[i], Eighths)

\* The part of C20 about the range of what is written.
C20_WrittenInRange ==
  Decoded =>
    /\ \A i \in 1..Len(probe.data) : Written[i] \in 0..255
    /\ \A p \in Grid(probe.width, probe.height) : Channel(probe.result, p[1], p[2], 3) = 255

\* -------------------------------------------------------- download claims
StartsFetch(k) == downloads'[k].fetches > downloads[k].fetches

Returns(k) == downloads[k].outcome = "pending" /\ downloads'[k].outcome = "resolved"

Ends(k) == downloads[k].outcome = "pending" /\ downloads'[k].outcome # "pending"

\* C11 as stated: a call whose url has bytes in the store never fetches and
\* ends by returning them after one progress report of 100; a call whose url
\* has none fetches once, reports progress while it streams, and returns
\* bytes it has stored under the url.
C11_CachedBytesOrOneFetch ==
  [][\A k \in Downloads :
       /\ StartsFetch(k) => downloads[k].url \notin stored
       /\ (Ends(k) /\ downloads[k].fetches = 0 /\ downloads[k].url \in stored) =>
            /\ downloads'[k].outcome = "resolved"
            /\ downloads'[k].result = records[downloads[k].url]
            /\ downloads'[k].progress = <<100>>
       /\ (Returns(k) /\ downloads[k].fetches > 0) =>
            /\ downloads'[k].fetches = 1
            /\ downloads'[k].progress # <<>>
            /\ records'[downloads[k].url] = downloads'[k].result
  ]_vars

\* C11, amended: a call to which the cache read gives bytes returns them
\* without fetching, after one progress report of 100; a call fetches at most
\* once, and only when the cache read found no record or the database could
\* not be opened; while streaming nothing is lost, and after every chunk the
\* rounded percentage is reported if the response has a content-length (else
\* nothing is reported); a call that returns after fetching has stored the
\* bytes it returns under its url; and the next call for that url, when its
\* cache read succeeds, returns the same bytes without fetching.
C11_DownloadUsesCache ==
  [][\A k \in Downloads :
       /\ downloads'[k].fetches <= 1
       /\ StartsFetch(k) =>
            \/ downloads[k].pc = "cached_open"
            \/ downloads[k].pc = "cached_get" /\ downloads[k].url \notin stored
       /\ (Returns(k) /\ downloads'[k].hit) =>
            /\ downloads[k].url \in stored
            /\ downloads'[k].result = records[downloads[k].url]
            /\ downloads'[k].fetches = 0
            /\ downloads'[k].progress = <<100>>
       /\ (downloads[k].pc = "read" /\ downloads'[k].pc = "read") =>
            /\ downloads'[k].loaded \o downloads'[k].body =
                 downloads[k].loaded \o downloads[k].body
            /\ Len(downloads'[k].loaded) > Len(downloads[k].loaded)
            /\ IF downloads[k].total = 0
                 THEN downloads'[k].progress = <<>>
                 ELSE \E pct \in 0..100 :
                        /\ downloads'[k].progress = Append(downloads[k].progress, pct)
                        /\ 2 * pct * downloads[k].total <=
                             200 * Len(downloads'[k].loaded) + downloads[k].total
                        /\ 200 * Len(downloads'[k].loaded) - downloads[k].total <
                             2 * pct * downloads[k].total
       /\ (Returns(k) /\ ~downloads'[k].hit) =>
            /\ downloads[k].pc = "store_put" /\ downloads[k].body = <<>>
            /\ downloads'[k].fetches = 1
            /\ downloads'[k].result = downloads[k].loaded
            /\ downloads[k].url \in stored'
            /\ records'[downloads[k].url] = downloads'[k].result
       /\ (/\ k > 1
           /\ downloads[k].pc = "cached_get" /\ downloads'[k].pc # "cached_get"
           /\ downloads'[k].outcome # "rejected"
           /\ downloads[k - 1].outcome = "resolved"
           /\ downloads[k - 1].url = downloads[k].url) =>
            /\ Returns(k) /\ downloads'[k].hit
            /\ downloads'[k].result = downloads[k - 1].result
            /\ downloads'[k].fetches = 0
  ]_vars

\* A call fetched, reported progress in steps and returned; the next call for
\* the same url returned the same bytes from the cache.
C11_Witness ==
  /\ downloads[1].outcome = "resolved" /\ downloads[1].fetches = 1
  /\ Len(downloads[1].progress) > 1
  /\ downloads[2].outcome = "resolved" /\ downloads[2].hit
  /\ downloads[2].url = downloads[1].url
  /\ downloads[2].result = downloads[1].result
  /\ downloads[2].fetches = 0 /\ downloads[2].progress = <<100>>

\* ------------------------------------------- the guards of the workers
\* A client of one worker calls initialize(), cleanup() and inpaint()
\* (detectBadge()) once each, in any order and without waiting.
GuardKinds(worker) ==
  IF worker = DetWorker THEN {"det_initialize", "det_cleanup", "det_detect"}
  ELSE {"ai_initialize", "ai_cleanup", "ai_inpaint"}

GuardPost(c) ==
  /\ detect.pc = "idle"
  /\ IF c = 1 THEN TRUE ELSE calls[c - 1].kind # "none"
  /\ calls[c].kind = "none"
  /\ \E kind \in GuardKinds(client) :
       /\ \A d \in Calls : calls[d].kind # kind
       /\ calls' = [calls EXCEPT ![c] =
            CASE kind = "ai_inpaint" ->
                   [Remote(kind, client) EXCEPT !.image = DroppedImage, !.mask = DroppedMask,
                                                !.padding = PATCH_PADDING]
              [] kind = "det_detect" -> [Remote(kind, client) EXCEPT !.size = <<54, 40>>]
              [] OTHER -> Remote(kind, client)]
  /\ inbox' = [inbox EXCEPT ![client] = Append(@, c)]
  /\ UNCHANGED <<pageVars, cacheVars, libVars, client, asset, detect, useWebgpu, aiLife, ai, det, cvLoaded, liveMats>>

GuardNext ==
  \E c \in Calls :
    \/ GuardPost(c)
    \/ AiInitializeCall(c)
    \/ AiFetchDone(c)
    \/ AiReadChunk(c)
    \/ AiReadError(c)
    \/ AiReadDone(c)
    \/ AiWebgpuDone(c)
    \/ AiWasmDone(c)
    \/ AiCleanupCall(c)
    \/ AiInpaintCall(c)
    \/ AiInpaintRunDone(c)
    \/ DetInitializeCall(c)
    \/ DetCvWaitDone(c)
    \/ DetFetchDone(c)
    \/ DetBlobDone(c)
    \/ DetBitmapDone(c)
    \/ DetCleanupCall(c)
    \/ DetDetectCall(c)
    \/ DetMatchScale(c)
    \/ DetDetectReturn(c)
    \/ DetDetectFinally(c)

SpecGuard == WorkerInit /\ [][GuardNext]_vars

\* ---------------------------------------------------- claims on the guards
AiOpen(s) == s.initialized /\ s.session # NoSession
DetOpen(s) == s.initialized /\ s.template # NoTemplate

NotInitialized(call) ==
  call.pc = "done" /\ call.outcome = "rejected" /\ call.error = "Worker not initialized"

\* C28: inpaint() and detectBadge() handled while the worker is not
\* initialized (or holds no session, no template) reject with 'Worker not
\* initialized', run no inference and no matching and change nothing of the
\* worker; handled otherwise they go on.  The worker is in the first case
\* from its start until an initialize() succeeds, after an initialize() has
\* failed and after a cleanup(): only a successful initialize() ends it.
C28_GuardRejectsUninitialized ==
  [][\A c \in Calls :
       /\ Handled(c, "ai_inpaint") =>
            IF AiOpen(ai[calls[c].w])
              THEN ~NotInitialized(calls'[c])
              ELSE NotInitialized(calls'[c]) /\ UNCHANGED <<ai, aiLife>>
       /\ Handled(c, "det_detect") =>
            IF DetOpen(det)
              THEN ~NotInitialized(calls'[c])
              ELSE NotInitialized(calls'[c]) /\ UNCHANGED <<det, detect, liveMats, cvLoaded>>
       /\ Settles(c, "ai_initialize", "rejected") => ~AiOpen(ai'[calls[c].w])
       /\ Settles(c, "det_initialize", "rejected") => ~DetOpen(det')
       /\ Handled(c, "ai_cleanup") => ~AiOpen(ai'[calls[c].w])
       /\ Handled(c, "det_cleanup") => ~DetOpen(det')
       /\ (calls[c].w \in Workers /\ ~AiOpen(ai[calls[c].w]) /\ AiOpen(ai'[calls[c].w])) =>
            \E d \in Calls : calls[d].w = calls[c].w /\ Settles(d, "ai_initialize", "resolved")
       /\ (~DetOpen(det) /\ DetOpen(det')) =>
            \E d \in Calls : Settles(d, "det_initialize", "resolved")
  ]_vars

\* An inpaint() (a detectBadge()) was rejected by the guard after the
\* cleanup() that followed a successful initialize().
C28_Witness ==
  \/ /\ calls[1].kind = "ai_initialize" /\ calls[1].outcome = "resolved"
     /\ calls[2].kind = "ai_cleanup" /\ calls[2].outcome = "resolved"
     /\ calls[3].kind = "ai_inpaint" /\ NotInitialized(calls[3])
     /\ ~ai[1].initialized
  \/ /\ calls[1].kind = "det_initialize" /\ calls[1].outcome = "resolved"
     /\ calls[2].kind = "det_cleanup" /\ calls[2].outcome = "resolved"
     /\ calls[3].kind = "det_detect" /\ NotInitialized(calls[3])
     /\ ~det.initialized

\* --------------------------------------------- detectBadge and its Mats
\* detectBadge() and cleanup() of the detection worker with every OpenCV call
\* that may throw, Mat.delete() included (cv is an untyped global of the
\* worker).  The worker starts as a successful initialize() leaves it.

\* What detectBadge() keeps besides its locals: the Mats it allocated, those
\* it deleted in order, the exception on its way out, the scales at which the
\* matching threw and the Mats whose delete() threw.
NoMats ==
  [made |-> {}, deleted |-> <<>>, error |-> "none", matchErrors |-> {},
   releaseErrors |-> {}]

ScaledMat(c, i) == <<"scaled", c, i>>
ResultMat(c, i) == <<"result", c, i>>

\* What the matching reports in these runs.
MatsScores == {30, 80}
MatsSizes == {<<6, 6>>, <<100, 100>>, <<160, 120>>}

\* Mat.delete() called on the Mats of order one after the other, lines 250-252
\* and 317-318: the first delete() that throws (failing, or none) ends it.
RECURSIVE Released(_, _)
Released(order, failing) ==
  IF order = <<>> \/ Head(order) = failing THEN <<>>
  ELSE <<Head(order)>> \o Released(Tail(order), failing)

Range(seq) == {seq[i] : i \in 1..Len(seq)}

\* The client posts one detectBadge() and one cleanup(), in either order.
MatsPost(c) ==
  /\ detect.pc = "idle"
  /\ IF c = 1 THEN TRUE ELSE calls[c - 1].kind # "none"
  /\ calls[c].kind = "none"
  /\ \/ /\ \A d \in Calls : calls[d].kind # "det_cleanup"
        /\ calls' = [calls EXCEPT ![c] =
             [NoCall EXCEPT !.kind = "det_cleanup", !.w = DetWorker,
                            !.pc = "posted", !.outcome = "pending"]]
     \/ /\ \A d \in Calls : calls[d].kind # "det_detect"
        /\ \E size \in MatsSizes :
             calls' = [calls EXCEPT ![c] =
               [NoCall EXCEPT !.kind = "det_detect", !.w = DetWorker, !.pc = "posted",
                              !.outcome = "pending", !.size = size]]
  /\ inbox' = [inbox EXCEPT ![DetWorker] = Append(@, c)]
  /\ UNCHANGED <<pageVars, cacheVars, libVars, client, asset, detect, useWebgpu, aiLife, ai, det, cvLoaded, liveMats>>

\* detectBadge(), lines 169-210: the guard, then matFromImageData, roi and
\* cvtColor, each of which may throw; the catch block rethrows.
MatsDetectCall(c) ==
  /\ Handling(c, "det_detect")
  /\ inbox' = Taken(c)
  /\ IF ~det.initialized \/ det.template = NoTemplate
       THEN /\ calls' = [calls EXCEPT ![c] = Reject(@, "Worker not initialized")]
            /\ UNCHANGED <<detect, liveMats>>
       ELSE LET roiWidth == FloorPercent(calls[c].size[1], ROI_PERCENT)
                roiHeight == FloorPercent(calls[c].size[2], ROI_PERCENT)
                start == [(NotDetecting @@ NoMats) EXCEPT
                            !.c = c, !.roiWidth = roiWidth, !.roiHeight = roiHeight,
                            !.roiX = calls[c].size[1] - roiWidth,
                            !.roiY = calls[c].size[2] - roiHeight]
            IN /\ calls' = [calls EXCEPT ![c].pc = "detecting"]
               /\ \E thrower \in {"none", "matFromImageData", "roi", "cvtColor"} :
                    /\ thrower \in {"none", "cvtColor"} => (roiWidth > 0 /\ roiHeight > 0)
                    /\ LET made == CASE thrower = "matFromImageData" -> {}
                                     [] thrower = "roi" -> {<<"src", c>>}
                                     [] OTHER -> DetectMats(c)
                       IN /\ liveMats' = liveMats \cup made
                          /\ detect' = [start EXCEPT
                               !.made = made,
                               !.pc = IF thrower = "none" THEN "loop" ELSE "finally",
                               !.error = IF thrower = "none" THEN "none" ELSE "OpenCV error"]
  /\ UNCHANGED <<pageVars, cacheVars, libVars, client, asset, useWebgpu, aiLife, ai, det, cvLoaded>>

\* detectBadge(), lines 216-229, with matchAtScale(), lines 259-320: one turn
\* of the loop.  A scale that does not fit allocates nothing.  Else the
\* resized template is allocated and cv.resize may throw, the score surface
\* is allocated and cv.matchTemplate may throw; the catch block answers null;
\* the finally block deletes what was allocated, and a delete() that throws
\* there leaves matchAtScale() as an exception, which detectBadge() rethrows.
MatsMatchAtScale(c) ==
  /\ detect.pc = "loop" /\ detect.c = c
  /\ Len(detect.matches) < Len(SCALES)
  /\ LET i == Len(detect.matches) + 1
         size == ScaledSize(asset, SCALES[i])
         fits == size.width <= detect.roiWidth /\ size.height <= detect.roiHeight
     IN IF ~fits
          THEN /\ detect' = [detect EXCEPT !.matches = Append(@, NoMatch)]
               /\ UNCHANGED liveMats
          ELSE \E thrower \in {"none", "resize", "matchTemplate"}, score \in MatsScores :
                 LET cv == [throws |-> thrower # "none", maxVal |-> score, maxLoc |-> <<0, 0>>]
                     match == MatchAtScale(detect.roiWidth, detect.roiHeight, asset,
                                           SCALES[i], cv)
                     order == IF thrower = "resize" THEN <<ScaledMat(c, i)>>
                              ELSE <<ScaledMat(c, i), ResultMat(c, i)>>
                 IN /\ thrower # "none" => score = 30
                    /\ \E failing \in {<<>>} \cup Range(order) :
                         LET released == Released(order, failing)
                             after == [detect EXCEPT
                                         !.made = @ \cup Range(order),
                                         !.deleted = @ \o released,
                                         !.matchErrors =
                                            IF thrower = "none" THEN @ ELSE @ \cup {i}]
                         IN /\ liveMats' = (liveMats \cup Range(order)) \ Range(released)
                            /\ detect' =
                                 IF failing = <<>>
                                   THEN [UpdateBest(after, match) EXCEPT
                                           !.matches = Append(@, match)]
                                   ELSE [after EXCEPT !.pc = "finally",
                                                      !.error = "delete failed",
                                                      !.releaseErrors = @ \cup {failing}]
  /\ UNCHANGED <<pageVars, cacheVars, libVars, client, asset, useWebgpu, aiLife, ai, det,
                 cvLoaded, inbox, calls>>

\* detectBadge(), lines 231-244: the return statement is evaluated.
MatsDetectReturn(c) ==
  /\ detect.pc = "loop" /\ detect.c = c
  /\ Len(detect.matches) = Len(SCALES)
  /\ detect' = [detect EXCEPT !.pc = "finally", !.result = DetectDecision(detect.bestMatch)]
  /\ UNCHANGED <<pageVars, cacheVars, libVars, client, asset, workerVars>>

\* detectBadge(), lines 248-253: the finally block deletes the source, ROI
\* and gray Mats that were allocated; a delete() that throws ends the block
\* and replaces the result or the exception of the call.
MatsDetectFinally(c) ==
  /\ detect.pc = "finally" /\ detect.c = c
  /\ LET order == SelectSeq(<<(<<"src", c>>), (<<"roi", c>>), (<<"gray", c>>)>>,
                            LAMBDA m : m \in detect.made)
     IN \E failing \in {<<>>} \cup Range(order) :
          LET released == Released(order, failing)
          IN /\ liveMats' = liveMats \ Range(released)
             /\ detect' = [detect EXCEPT
                  !.pc = "idle",
                  !.deleted = @ \o released,
                  !.releaseErrors = IF failing = <<>> THEN @ ELSE @ \cup {failing}]
             /\ calls' = [calls EXCEPT ![c] =
                  IF failing # <<>> THEN Reject(@, "delete failed")
                  ELSE IF detect.error # "none" THEN Reject(@, detect.error)
                  ELSE [Resolve(@) EXCEPT !.match = detect.result]]
  /\ UNCHANGED <<pageVars, cacheVars, libVars, client, asset, useWebgpu, aiLife, ai, det, cvLoaded, inbox>>

\* cleanup(), lines 332-339: template.delete() may throw, and then neither
\* assignment is reached.
MatsCleanupCall(c) ==
  /\ Handling(c, "det_cleanup")
  /\ inbox' = Taken(c)
  /\ \E throws \in BOOLEAN :
       IF det.template # NoTemplate /\ throws
         THEN /\ calls' = [calls EXCEPT ![c] = Reject(@, "delete failed")]
              /\ UNCHANGED <<det, liveMats>>
         ELSE /\ calls' = [calls EXCEPT ![c] = Resolve(@)]
              /\ det' = DetCleanupState(det)
              /\ liveMats' = IF det.template # NoTemplate
                               THEN liveMats \ {TemplateMat(det.template.by)}
                               ELSE liveMats
  /\ UNCHANGED <<pageVars, cacheVars, libVars, client, asset, detect, useWebgpu, aiLife, ai, cvLoaded>>

\* cleanupObjectUrl(), file-utils.ts lines 204-210: URL.revokeObjectURL may
\* throw; the catch block logs and the function returns.
CleanupObjectUrl ==
  /\ probe.op = "cleanupObjectUrl"
  /\ probe.pc = "called"
  /\ \E throws \in BOOLEAN :
       probe' = [probe EXCEPT !.pc = "returned", !.threw = throws, !.warned = throws]
  /\ UNCHANGED restVars

MatsInit ==
  /\ client = DetWorker
  /\ asset = DefaultAsset
  /\ detect = NotDetecting @@ NoMats
  /\ PageFresh /\ CacheFresh
  /\ records = [u \in Urls |-> <<>>]
  /\ downloads = [k \in Downloads |-> NoDownload]
  /\ uploads = [d \in Drops |-> NoUpload]
  /\ probe = [op |-> "cleanupObjectUrl", pc |-> "called", threw |-> FALSE, warned |-> FALSE]
  /\ useWebgpu = FALSE
  /\ aiLife = [w \in Workers |-> IF w = 1 THEN "running" ELSE "unborn"]
  /\ ai = [w \in Workers |-> AiFresh]
  /\ det = [initialized |-> TRUE, template |-> [by |-> 1, gray |-> TRUE], cvReady |-> TRUE]
  /\ cvLoaded = TRUE
  /\ liveMats = {TemplateMat(1)}
  /\ inbox = [w \in Workers \cup {DetWorker} |-> <<>>]
  /\ calls = [c \in Calls |-> NoCall]

MatsNext ==
  \/ CleanupObjectUrl
  \/ \E c \in Calls :
       \/ MatsPost(c)
       \/ MatsDetectCall(c)
       \/ MatsMatchAtScale(c)
       \/ MatsDetectReturn(c)
       \/ MatsDetectFinally(c)
       \/ MatsCleanupCall(c)

SpecMats == MatsInit /\ [][MatsNext]_vars

\* ------------------------------------------------ claims about the Mats
\* The detectBadge() call that ran past its guard and has ended.
Detected(c) ==
  /\ calls[c].kind = "det_detect" /\ calls[c].pc = "done"
  /\ detect.c = c

\* C23: a failure to release a resource is never propagated: when a delete()
\* of a Mat throws in detectBadge() or in matchAtScale(), the call still ends
\* with the detection, null or error it had; when the template's delete()
\* throws, cleanup() still returns and leaves the worker uninitialized; when
\* revoking an object URL throws, cleanupObjectUrl() returns.
C23_ReleaseFailureNotPropagated ==
  /\ \A c \in Calls :
       /\ (Detected(c) /\ detect.releaseErrors # {}) =>
            /\ calls[c].error # "delete failed"
            /\ calls[c].outcome = "resolved" => calls[c].match = detect.result
       /\ (calls[c].kind = "det_cleanup" /\ calls[c].pc = "done") =>
            /\ calls[c].outcome = "resolved"
            /\ DetUninitialized(det)
  /\ (probe.op = "cleanupObjectUrl" /\ probe.pc = "returned") => (probe.threw => probe.warned)

\* C23, the part of it that holds: cleanupObjectUrl() returns whether or not
\* the revocation threw.
C23_RevokeFailureSwallowed ==
  [][(probe.op = "cleanupObjectUrl" /\ probe.pc = "called" /\ probe' # probe)
       => probe'.pc = "returned"]_vars

\* C24: an error of the matching routine at one scale leaves detectBadge() as
\* an error: the call is rejected, it does not resolve with null or with the
\* candidate of another scale.
C24_MatchErrorPropagates ==
  \A c \in Calls :
    (Detected(c) /\ detect.matchErrors # {}) => calls[c].outcome = "rejected"

\* C29: when detectBadge() has ended, with a result, with null or with an
\* error, every Mat it allocated was deleted exactly once and is no longer
\* live, and the template Mat is live and as it was.
C29_EveryMatDeletedOnce ==
  \A c \in Calls :
    Detected(c) =>
      /\ \A m \in detect.made :
           /\ Cardinality({k \in 1..Len(detect.deleted) : detect.deleted[k] = m}) = 1
           /\ m \notin liveMats
      /\ Range(detect.deleted) \subseteq detect.made
      /\ (\A d \in Calls : calls[d].kind = "det_cleanup" => calls[d].pc = "posted") =>
           /\ TemplateMat(1) \in liveMats
           /\ det.template = [by |-> 1, gray |-> TRUE]

\* C29, the part of it that holds: the same when no delete() threw.
C29_EveryMatDeletedOnceIfDeleteWorks ==
  \A c \in Calls :
    (Detected(c) /\ detect.releaseErrors = {}) =>
      /\ \A m \in detect.made :
           /\ Cardinality({k \in 1..Len(detect.deleted) : detect.deleted[k] = m}) = 1
           /\ m \notin liveMats
      /\ Range(detect.deleted) \subseteq detect.made
      /\ (\A d \in Calls : calls[d].kind = "det_cleanup" => calls[d].pc = "posted") =>
           /\ TemplateMat(1) \in liveMats
           /\ det.template = [by |-> 1, gray |-> TRUE]

====
